---- MODULE Spec2Model ----
(***************************************************************************)
(* Verification model of the admissions pipeline: the /pull-data gate of   *)
(* the Flask routes (modules 3, 4, 5), the idempotent Loader, and the      *)
(* Cleaner of module 2.                                                    *)
(*                                                                         *)
(* The specifications share the module's variables:                        *)
(*   SpecPull  - concurrent POST /pull-data requests against _pull_lock    *)
(*   SpecLoad  - concurrent load_applicants calls against the store        *)
(*   SpecClean - Cleaner.clean_file over a raw snapshot                    *)
(*   SpecFields - clean_file over single rows varying the optional fields  *)
(*   SpecEnrich - the enrichment stage over a batch of cleaned rows        *)
(*   SpecPullLive - SpecPull with every request's steps weakly fair       *)
(*   SpecAnalysis - POST /update-analysis beside the /pull-data requests   *)
(*   SpecWrite - the writers of the snapshot files and a reader            *)
(*   SpecCrawl - the page loop of Scraper.scrape                           *)
(*   SpecPage  - _parse_page over the rows of one page, then the Cleaner   *)
(*   SpecAdapter - run_module2_cli of modules 4 and 5 (bulk file, CLI)     *)
(*   SpecCycle - one pull cycle: fetch, clean, enrich, load                *)
(* Each specification leaves the variables of the others at their parked   *)
(* values.                                                                 *)
(***************************************************************************)
EXTENDS Integers, Sequences, FiniteSets, TLC

VARIABLES
    \* ---- routes.py (/pull-data) ----
    variant,      \* which routes.py is deployed: 3, 4 or 5 (0 = parked)
    lock,         \* _pull_lock: 0 when free, else the request holding it
    pc,           \* pc[r]: position of request r inside pull_data()
    wants_json,   \* wants_json[r]: "application/json" in the Accept header
    resp,         \* resp[r]: the response returned to r's caller
    arrivedBusy,  \* history: a pull cycle was in flight when r arrived
    svcCalls,     \* history: svc_pull() invocations made on behalf of r
    svcOutcome    \* history: how svc_pull() ended for r

VARIABLES
    \* ---- data/loader.py (load_applicants) and the applicants table ----
    store,        \* the applicants table: rows in insertion order
    lpc,          \* lpc[p]: position of process p inside load_applicants()
    batch,        \* batch[p]: the rows argument of p's current call
    idx,          \* idx[p]: index of the next row of batch[p] to attempt
    stats,        \* stats[p]: the attempted/inserted/skipped counters
    outcomes,     \* history: per attempted row of the call, "inserted"/"skipped"
    startStore,   \* history: the table when p's call started
    quiet,        \* history: no other process inserted since p's call started
    repeat,       \* history: p's previous call returned and had the same rows
    insertedBy,   \* history: insertedBy[u] = inserted counts summed over all calls
    calls         \* number of load calls started so far

VARIABLES
    \* ---- module_2/clean.py (Cleaner.clean_file) and module_2/app.py ----
    cleaner,      \* the Cleaner's dedupe/validation settings
    rawFile,      \* data/applicant_data.json
    cleanedFile,  \* data/applicant_data.cleaned.json
    cpc,          \* position of app.py's main() around clean_file()
    returned,     \* what clean_file() returned to main()
    cleanedWas,   \* history: the cleaned snapshot before clean_file() ran
    firstRun      \* history: the outcome of the first of two clean runs

VARIABLES
    \* ---- enrichment stage ----
    epath,        \* which caller runs the stage: app, api or cli
    ecfg,         \* the validation settings of the Cleaner that merges
    einput,       \* the cleaned rows handed to the stage
    backend,      \* how the enrichment backend behaves for this batch
    epc,          \* position of the run around the stage
    eout,         \* the rows the stage produced
    handed        \* the rows handed to the stage after it

VARIABLES
    \* ---- one record per further component; Off while it is not running ----
    upd,          \* the thread serving POST /update-analysis
    cyc,          \* one pull cycle: svc_pull() and the stages it runs
    crawl,        \* Scraper.scrape: the page loop
    snap,         \* a snapshot path, its writer and a reader
    page,         \* Scraper._parse_page over the rows of one page
    adp           \* run_module2_cli of modules 4 and 5

pullVars == <<variant, lock, pc, wants_json, resp, arrivedBusy, svcCalls, svcOutcome>>

loadVars == <<store, lpc, batch, idx, stats, outcomes, startStore, quiet, repeat,
              insertedBy, calls>>

cleanVars == <<cleaner, rawFile, cleanedFile, cpc, returned, cleanedWas, firstRun>>

enrichVars == <<epath, ecfg, einput, backend, epc, eout, handed>>

pipeVars == <<upd, cyc, crawl, snap, page, adp>>

vars == <<pullVars, loadVars, cleanVars, enrichVars, pipeVars>>

\* a component that is not part of the run
Off == [pc |-> "off"]

(***************************************************************************)
(* Bounds                                                                  *)
(***************************************************************************)
NReq == 2       \* concurrent request threads
MaxBatch == 2   \* rows per load call
MaxCalls == 2   \* load calls per behaviour
MaxRows == 2    \* items of a raw snapshot
MaxERows == 2   \* rows of a batch to enrich
MaxLines == 2   \* lines of the backend's out.jsonl

Reqs == 1..NReq

(***************************************************************************)
(* routes.py: POST /pull-data                                              *)
(***************************************************************************)
Variants == {3, 4, 5}

NoResp == [status |-> 0, kind |-> "none"]

\* Response of the busy branch (`if _pull_lock.locked():`) of modules 3 and 4.
BusyResponse(v, json) ==
    IF v = 4 /\ json THEN [status |-> 409, kind |-> "busy"]
                     ELSE [status |-> 302, kind |-> "busy"]

\* Response after svc_pull() returned its stats.
OkResponse(v, json) ==
    IF v \in {4, 5} /\ json THEN [status |-> 200, kind |-> "ok"]
                            ELSE [status |-> 302, kind |-> "ok"]

\* Response after svc_pull() raised exception class `exc`.
\*   modules 3/4: `except Exception` -> error flash / 500 JSON
\*   module 5:    `except RuntimeError` -> 409 busy JSON / 303 redirect;
\*                any other exception leaves the handler (Flask's 500).
RaiseResponse(v, json, exc) ==
    IF v = 5
    THEN IF exc = "RuntimeError"
         THEN IF json THEN [status |-> 409, kind |-> "busy"]
                      ELSE [status |-> 303, kind |-> "redirect"]
         ELSE [status |-> 500, kind |-> "unhandled"]
    ELSE IF v = 4 /\ json THEN [status |-> 500, kind |-> "error"]
                          ELSE [status |-> 302, kind |-> "error"]

\* threading.Lock.locked()
Locked == lock # 0

\* threading.Lock.__enter__: a blocking acquire, enabled once the lock is free.
LockAcquireNoWait(r) == lock' = r
LockAcquire(r) == lock = 0 /\ lock' = r

\* a release written after the call instead of in __exit__: skipped on a raise
LockReleaseOnReturn(r) == lock' = IF svcOutcome[r] = "returned" THEN 0 ELSE lock

\* threading.Lock.__exit__
LockRelease(r) == lock' = 0

\* Modules 3 and 4 test locked() before entering `with _pull_lock`.
HasBusyCheck(v) == v \in {3, 4}

\* Flask dispatches the request to pull_data() on a worker thread.
Arrive(r) ==
    /\ pc[r] = "idle"
    /\ \E j \in (IF variant = 3 THEN {FALSE} ELSE BOOLEAN) :
          wants_json' = [wants_json EXCEPT ![r] = j]
    /\ arrivedBusy' = [arrivedBusy EXCEPT ![r] = Locked]
    /\ pc' = [pc EXCEPT ![r] = IF HasBusyCheck(variant) THEN "check" ELSE "acquire"]
    /\ UNCHANGED <<variant, lock, resp, svcCalls, svcOutcome>>
    /\ UNCHANGED <<loadVars, cleanVars, enrichVars, pipeVars>>

\* `if _pull_lock.locked(): return busy`
CheckLocked(r) ==
    /\ pc[r] = "check"
    /\ IF Locked
       THEN /\ resp' = [resp EXCEPT ![r] = BusyResponse(variant, wants_json[r])]
            /\ pc' = [pc EXCEPT ![r] = "done"]
       ELSE /\ pc' = [pc EXCEPT ![r] = "acquire"]
            /\ UNCHANGED resp
    /\ UNCHANGED <<variant, lock, wants_json, arrivedBusy, svcCalls, svcOutcome>>
    /\ UNCHANGED <<loadVars, cleanVars, enrichVars, pipeVars>>

\* `with _pull_lock:` entered
Acquire(r) ==
    /\ pc[r] = "acquire"
    /\ LockAcquire(r)
    /\ pc' = [pc EXCEPT ![r] = "locked"]
    /\ UNCHANGED <<variant, wants_json, resp, arrivedBusy, svcCalls, svcOutcome>>
    /\ UNCHANGED <<loadVars, cleanVars, enrichVars, pipeVars>>

\* `stats = svc_pull()` is called
SvcStart(r) ==
    /\ pc[r] = "locked"
    /\ svcCalls' = [svcCalls EXCEPT ![r] = @ + 1]
    /\ pc' = [pc EXCEPT ![r] = "svc"]
    /\ UNCHANGED <<variant, lock, wants_json, resp, arrivedBusy, svcOutcome>>
    /\ UNCHANGED <<loadVars, cleanVars, enrichVars, pipeVars>>

\* svc_pull() returns its stats or raises
SvcEnd(r) ==
    /\ pc[r] = "svc"
    /\ \E o \in {"returned", "RuntimeError", "Exception"} :
          svcOutcome' = [svcOutcome EXCEPT ![r] = o]
    /\ pc' = [pc EXCEPT ![r] = "svc_ended"]
    /\ UNCHANGED <<variant, lock, wants_json, resp, arrivedBusy, svcCalls>>
    /\ UNCHANGED <<loadVars, cleanVars, enrichVars, pipeVars>>

\* leaving the `with` block releases the lock; the handler returns its response
Finish(r) ==
    /\ pc[r] = "svc_ended"
    /\ LockRelease(r)
    /\ resp' = [resp EXCEPT ![r] =
                  IF svcOutcome[r] = "returned"
                  THEN OkResponse(variant, wants_json[r])
                  ELSE RaiseResponse(variant, wants_json[r], svcOutcome[r])]
    /\ pc' = [pc EXCEPT ![r] = "done"]
    /\ UNCHANGED <<variant, wants_json, arrivedBusy, svcCalls, svcOutcome>>
    /\ UNCHANGED <<loadVars, cleanVars, enrichVars, pipeVars>>

\* the worker thread is handed the next request
NextRequest(r) ==
    /\ pc[r] = "done"
    /\ pc' = [pc EXCEPT ![r] = "idle"]
    /\ resp' = [resp EXCEPT ![r] = NoResp]
    /\ wants_json' = [wants_json EXCEPT ![r] = FALSE]
    /\ arrivedBusy' = [arrivedBusy EXCEPT ![r] = FALSE]
    /\ svcCalls' = [svcCalls EXCEPT ![r] = 0]
    /\ svcOutcome' = [svcOutcome EXCEPT ![r] = "none"]
    /\ UNCHANGED <<variant, lock>>
    /\ UNCHANGED <<loadVars, cleanVars, enrichVars, pipeVars>>

(***************************************************************************)
(* data/loader.py: load_applicants(rows) against the applicants table      *)
(***************************************************************************)
Loaders == {"app", "script"}   \* services.pull_data and scripts/init_db.py

Urls == {"u1", "u2"}

\* rows as the Loader sees them: the natural key and the rest of the record
LoadRows == {[url |-> "u1", val |-> 1], [url |-> "u1", val |-> 2], [url |-> "u2", val |-> 1]}

RECURSIVE SeqsUpTo(_, _)
SeqsUpTo(S, n) ==
    IF n = 0 THEN {<<>>}
    ELSE LET shorter == SeqsUpTo(S, n - 1)
         IN  shorter \cup {Append(q, x) : q \in {t \in shorter : Len(t) = n - 1}, x \in S}

Batches == SeqsUpTo(LoadRows, MaxBatch)

ZeroStats == [attempted |-> 0, inserted |-> 0, skipped |-> 0]

\* a row with this natural key is in the table
HasUrl(st, u) == \E i \in 1..Len(st) : st[i].url = u

\* INSERT ... ON CONFLICT (url) DO NOTHING: one atomic statement
InsertAlways(st, row) == Append(st, row)
InsertOverwrite(st, row) ==
    IF HasUrl(st, row.url)
    THEN [i \in 1..Len(st) |-> IF st[i].url = row.url THEN row ELSE st[i]]
    ELSE Append(st, row)
InsertIfAbsent(st, row) == IF HasUrl(st, row.url) THEN st ELSE Append(st, row)

\* the statement's row count: 1 when the row went in, 0 on conflict
RowCountAlwaysOne(st, row) == 1
RowCount(st, row) == IF HasUrl(st, row.url) THEN 0 ELSE 1

\* the counters after one attempted row
CountInsertedOnly(s, n) ==
    [attempted |-> s.attempted + 1, inserted |-> s.inserted + n, skipped |-> s.skipped]
CountRow(s, n) ==
    [attempted |-> s.attempted + 1,
     inserted  |-> s.inserted + n,
     skipped   |-> s.skipped + (1 - n)]

\* load_applicants(rows) is called
StartLoad(p) ==
    /\ lpc[p] \in {"idle", "returned", "raised"}
    /\ calls < MaxCalls
    /\ calls' = calls + 1
    /\ \E rows \in Batches :
          /\ batch' = [batch EXCEPT ![p] = rows]
          /\ repeat' = [repeat EXCEPT ![p] = lpc[p] = "returned" /\ rows = batch[p]]
    /\ idx' = [idx EXCEPT ![p] = 1]
    /\ stats' = [stats EXCEPT ![p] = ZeroStats]
    /\ outcomes' = [outcomes EXCEPT ![p] = <<>>]
    /\ startStore' = [startStore EXCEPT ![p] = store]
    /\ quiet' = [quiet EXCEPT ![p] = TRUE]
    /\ lpc' = [lpc EXCEPT ![p] = "loading"]
    /\ UNCHANGED <<store, insertedBy>>
    /\ UNCHANGED <<pullVars, cleanVars, enrichVars, pipeVars>>

\* one row of the batch is attempted
LoadRow(p) ==
    /\ lpc[p] = "loading"
    /\ idx[p] <= Len(batch[p])
    /\ LET row == batch[p][idx[p]]
           n   == RowCount(store, row)
       IN  /\ store' = InsertIfAbsent(store, row)
           /\ stats' = [stats EXCEPT ![p] = CountRow(@, n)]
           /\ outcomes' = [outcomes EXCEPT ![p] =
                             Append(@, IF n = 1 THEN "inserted" ELSE "skipped")]
           /\ insertedBy' = [insertedBy EXCEPT ![row.url] = @ + n]
           /\ quiet' = [q \in Loaders |->
                          IF q # p /\ store' # store THEN FALSE ELSE quiet[q]]
    /\ idx' = [idx EXCEPT ![p] = @ + 1]
    /\ UNCHANGED <<lpc, batch, startStore, repeat, calls>>
    /\ UNCHANGED <<pullVars, cleanVars, enrichVars, pipeVars>>

\* the storage backend fails: the error surfaces to the caller, which gets no
\* result; the call's locals are gone
LoadFail(p) ==
    /\ lpc[p] = "loading"
    /\ idx[p] <= Len(batch[p])
    /\ lpc' = [lpc EXCEPT ![p] = "raised"]
    /\ batch' = [batch EXCEPT ![p] = <<>>]
    /\ idx' = [idx EXCEPT ![p] = 1]
    /\ stats' = [stats EXCEPT ![p] = ZeroStats]
    /\ outcomes' = [outcomes EXCEPT ![p] = <<>>]
    /\ startStore' = [startStore EXCEPT ![p] = <<>>]
    /\ quiet' = [quiet EXCEPT ![p] = TRUE]
    /\ repeat' = [repeat EXCEPT ![p] = FALSE]
    /\ UNCHANGED <<store, insertedBy, calls>>
    /\ UNCHANGED <<pullVars, cleanVars, enrichVars, pipeVars>>

\* every row was attempted: the counters are returned
LoadReturn(p) ==
    /\ lpc[p] = "loading"
    /\ idx[p] > Len(batch[p])
    /\ lpc' = [lpc EXCEPT ![p] = "returned"]
    /\ UNCHANGED <<store, batch, idx, stats, outcomes, startStore, quiet, repeat,
                   insertedBy, calls>>
    /\ UNCHANGED <<pullVars, cleanVars, enrichVars, pipeVars>>

(***************************************************************************)
(* module_2/clean.py: strings                                              *)
(*                                                                         *)
(* A Python str is a sequence of one-character strings; "nbsp" stands for  *)
(* U+00A0 and a token starting with & for that HTML entity's text.  None   *)
(* is Null.                                                                *)
(***************************************************************************)
Null == <<"None">>

WhiteSpace == {" ", "\t", "\n", "nbsp"}

\* index of the first ">" of s after position 1, 0 when there is none
TagEnd(s) ==
    IF \E j \in 2..Len(s) : s[j] = ">"
    THEN CHOOSE j \in 2..Len(s) : s[j] = ">" /\ \A k \in 2..(j - 1) : s[k] # ">"
    ELSE 0

\* re.sub(r"<[^>]+>", " ", s)
RECURSIVE StripTags(_)
StripTags(s) ==
    IF s = <<>> THEN <<>>
    ELSE IF Head(s) = "<" /\ TagEnd(s) >= 3
         THEN <<" ">> \o StripTags(SubSeq(s, TagEnd(s) + 1, Len(s)))
         ELSE <<Head(s)>> \o StripTags(Tail(s))

\* html.unescape(s)
UnescapeChar(c) ==
    CASE c = "&amp;"  -> "&"
      [] c = "&lt;"   -> "<"
      [] c = "&gt;"   -> ">"
      [] c = "&nbsp;" -> "nbsp"
      [] OTHER        -> c

Unescape(s) == [i \in 1..Len(s) |-> UnescapeChar(s[i])]

\* re.sub(r"\s+", " ", s)
RECURSIVE CollapseWS(_)
CollapseWS(s) ==
    IF s = <<>> THEN <<>>
    ELSE IF Head(s) \in WhiteSpace
         THEN IF Len(s) >= 2 /\ s[2] \in WhiteSpace
              THEN CollapseWS(Tail(s))
              ELSE <<" ">> \o CollapseWS(Tail(s))
         ELSE <<Head(s)>> \o CollapseWS(Tail(s))

\* str.strip()
RECURSIVE LStrip(_)
LStrip(s) == IF s # <<>> /\ Head(s) \in WhiteSpace THEN LStrip(Tail(s)) ELSE s

RECURSIVE RStrip(_)
RStrip(s) ==
    IF s # <<>> /\ s[Len(s)] \in WhiteSpace THEN RStrip(SubSeq(s, 1, Len(s) - 1)) ELSE s

StripNothing(s) == s
Strip(s) == RStrip(LStrip(s))

\* str.lower()
UpperCase == <<"A","B","C","D","E","F","G","H","I","J","K","L","M",
               "N","O","P","Q","R","S","T","U","V","W","X","Y","Z">>
LowerCase == <<"a","b","c","d","e","f","g","h","i","j","k","l","m",
               "n","o","p","q","r","s","t","u","v","w","x","y","z">>

LowerChar(c) ==
    IF \E i \in 1..26 : UpperCase[i] = c
    THEN LowerCase[CHOOSE i \in 1..26 : UpperCase[i] = c]
    ELSE c

Lower(s) == [i \in 1..Len(s) |-> LowerChar(s[i])]

\* s.replace(c, "")
RemoveChar(s, c) == SelectSeq(s, LAMBDA x : x # c)

\* sub in s
Contains(s, sub) ==
    \E i \in 0..(Len(s) - Len(sub)) : SubSeq(s, i + 1, i + Len(sub)) = sub

\* _norm_str(x)
NormStr(x) ==
    IF x = Null THEN Null
    ELSE LET t == Strip(CollapseWS(Unescape(StripTags(x))))
         IN  IF t = <<>> THEN Null ELSE t

(***************************************************************************)
(* module_2/clean.py: dates (datetime.strptime / strftime)                 *)
(***************************************************************************)
Digits == <<"0","1","2","3","4","5","6","7","8","9">>

IsDigit(c) == \E i \in 1..10 : Digits[i] = c

DigitVal(c) == (CHOOSE i \in 1..10 : Digits[i] = c) - 1

AllDigits(t) == \A i \in 1..Len(t) : IsDigit(t[i])

RECURSIVE IntOf(_)
IntOf(t) == IF t = <<>> THEN 0 ELSE 10 * IntOf(SubSeq(t, 1, Len(t) - 1)) + DigitVal(t[Len(t)])

TwoDigits(n) == <<Digits[(n \div 10) + 1], Digits[(n % 10) + 1]>>

\* %Y: exactly four digits, year >= 1 (datetime.MINYEAR); 0 when no match
YearVal(t) == IF Len(t) = 4 /\ AllDigits(t) THEN IntOf(t) ELSE 0

\* %m: 1[0-2]|0[1-9]|[1-9]; 0 when no match
MonthVal(t) ==
    IF Len(t) \in {1, 2} /\ AllDigits(t) /\ IntOf(t) \in 1..12 THEN IntOf(t) ELSE 0

\* %d: 3[0-1]|[1-2]\d|0[1-9]|[1-9]| [1-9]; 0 when no match
DayVal(t) ==
    IF Len(t) \in {1, 2} /\ AllDigits(t) /\ IntOf(t) \in 1..31 THEN IntOf(t)
    ELSE IF Len(t) = 2 /\ t[1] = " " /\ IsDigit(t[2]) /\ DigitVal(t[2]) >= 1
         THEN DigitVal(t[2])
         ELSE 0

IsLeap(y) == y % 4 = 0 /\ (y % 100 # 0 \/ y % 400 = 0)

DaysIn(m, y) ==
    IF m = 2 THEN (IF IsLeap(y) THEN 29 ELSE 28)
    ELSE IF m \in {4, 6, 9, 11} THEN 30 ELSE 31

\* datetime(y, m, d) is a date
ValidDate(y, m, d) == y >= 1 /\ m \in 1..12 /\ d >= 1 /\ d <= DaysIn(m, y)

\* calendar.month_name, lower case
MonthNames == <<
    <<"j","a","n","u","a","r","y">>, <<"f","e","b","r","u","a","r","y">>,
    <<"m","a","r","c","h">>, <<"a","p","r","i","l">>, <<"m","a","y">>,
    <<"j","u","n","e">>, <<"j","u","l","y">>, <<"a","u","g","u","s","t">>,
    <<"s","e","p","t","e","m","b","e","r">>, <<"o","c","t","o","b","e","r">>,
    <<"n","o","v","e","m","b","e","r">>, <<"d","e","c","e","m","b","e","r">>
>>

\* %B (full name) or %b (three-letter name), case-insensitive; 0 when no match
MonthNameVal(t, full) ==
    LET name(i) == IF full THEN MonthNames[i] ELSE SubSeq(MonthNames[i], 1, 3)
    IN  IF \E i \in 1..12 : name(i) = Lower(t)
        THEN CHOOSE i \in 1..12 : name(i) = Lower(t)
        ELSE 0

\* index of the first c in s, 0 when there is none
IndexOf(s, c) ==
    IF \E i \in 1..Len(s) : s[i] = c
    THEN CHOOSE i \in 1..Len(s) : s[i] = c /\ \A k \in 1..(i - 1) : s[k] # c
    ELSE 0

NoDate == [ok |-> FALSE, y |-> 0, m |-> 0, d |-> 0]

\* strptime(s, "%Y-%m-%d")
ParseIso(s) ==
    LET rest == SubSeq(s, 6, Len(s))
        j    == IndexOf(rest, "-")
        y    == YearVal(SubSeq(s, 1, 4))
        m    == MonthVal(SubSeq(rest, 1, j - 1))
        d    == DayVal(SubSeq(rest, j + 1, Len(rest)))
    IN  IF Len(s) >= 8 /\ s[5] = "-" /\ j >= 2 /\ ValidDate(y, m, d)
        THEN [ok |-> TRUE, y |-> y, m |-> m, d |-> d]
        ELSE NoDate

\* strptime(s, "%B %d, %Y") when full, strptime(s, "%b %d, %Y") otherwise
ParseMonthDayYear(s, full) ==
    LET i    == IndexOf(s, " ")
        rest == SubSeq(s, i + 1, Len(s))
        j    == IndexOf(rest, ",")
        tl   == SubSeq(rest, j + 1, Len(rest))
        m    == MonthNameVal(SubSeq(s, 1, i - 1), full)
        d    == DayVal(LStrip(SubSeq(rest, 1, j - 1)))
        y    == YearVal(LStrip(tl))
    IN  IF i >= 2 /\ j >= 2 /\ tl # <<>> /\ Head(tl) \in WhiteSpace /\ ValidDate(y, m, d)
        THEN [ok |-> TRUE, y |-> y, m |-> m, d |-> d]
        ELSE NoDate

\* str(n) for n >= 0
RECURSIVE Decimal(_)
Decimal(n) == IF n < 10 THEN <<Digits[n + 1]>> ELSE Decimal(n \div 10) \o <<Digits[(n % 10) + 1]>>

\* strftime("%Y-%m-%d"); the C library's %Y does not pad a year below 1000
FormatIso(dt) == Decimal(dt.y) \o <<"-">> \o TwoDigits(dt.m) \o <<"-">> \o TwoDigits(dt.d)

\* the formats tried in turn; the first that parses wins
ParseKnown(s) ==
    IF ParseIso(s).ok THEN ParseIso(s)
    ELSE IF ParseMonthDayYear(s, TRUE).ok THEN ParseMonthDayYear(s, TRUE)
         ELSE ParseMonthDayYear(s, FALSE)

\* _date_iso(s): an unknown format is kept as it is
DateIso(x) ==
    LET s == NormStr(x)
    IN  IF s = Null THEN Null
        ELSE IF ParseKnown(s).ok THEN FormatIso(ParseKnown(s)) ELSE s

\* s is YYYY-MM-DD with two-digit month and day
IsIsoDate(s) ==
    /\ s # Null
    /\ Len(s) = 10
    /\ ParseIso(s).ok

(***************************************************************************)
(* module_2/clean.py: numbers (_to_int, _to_float of _normalize_row)       *)
(*                                                                         *)
(* A number is [kind, num, den]: an int, a finite float num/den, nan, or    *)
(* inf with the sign in num; None is NoneNum.                              *)
(***************************************************************************)
NoneNum == [kind |-> "none", num |-> 0, den |-> 1]

IntNum(n) == [kind |-> "int", num |-> n, den |-> 1]

FloatNum(n, d) == [kind |-> "float", num |-> n, den |-> d]

NaN == [kind |-> "nan", num |-> 0, den |-> 1]

Inf(sign) == [kind |-> "inf", num |-> sign, den |-> 1]

\* a < b on Python numbers: every comparison with nan is False
NumLt(a, b) ==
    IF a.kind = "nan" \/ b.kind = "nan" THEN FALSE
    ELSE IF a.kind = "inf" THEN a.num < 0 /\ ~(b.kind = "inf" /\ b.num < 0)
    ELSE IF b.kind = "inf" THEN b.num > 0
    ELSE a.num * b.den < b.num * a.den

\* a <= b
NumLe(a, b) ==
    IF a.kind = "nan" \/ b.kind = "nan" THEN FALSE
    ELSE ~NumLt(b, a)

RECURSIVE Pow10(_)
Pow10(k) == IF k = 0 THEN 1 ELSE 10 * Pow10(k - 1)

\* the sign of a literal and the text after it
SignOf(s) == IF s # <<>> /\ Head(s) = "-" THEN -1 ELSE 1

Unsigned(s) == IF s # <<>> /\ Head(s) \in {"+", "-"} THEN Tail(s) ELSE s

\* digits with single underscores between them, as int() takes them
IsIntBody(b) ==
    /\ b # <<>>
    /\ \A i \in 1..Len(b) : IsDigit(b[i]) \/ b[i] = "_"
    /\ IsDigit(b[1]) /\ IsDigit(b[Len(b)])
    /\ \A i \in 1..(Len(b) - 1) : ~(b[i] = "_" /\ b[i + 1] = "_")

\* _to_int(x): int(str(x).strip()), None when int() raises
ToInt(x) ==
    LET s == Strip(x)
        b == Unsigned(s)
    IN  IF x = Null \/ ~IsIntBody(b) THEN NoneNum
        ELSE IntNum(SignOf(s) * IntOf(RemoveChar(b, "_")))

\* a decimal literal without exponent: digits around at most one point
IsDecimalBody(b) ==
    /\ \E i \in 1..Len(b) : IsDigit(b[i])
    /\ \A i \in 1..Len(b) : IsDigit(b[i]) \/ b[i] = "."
    /\ Cardinality({i \in 1..Len(b) : b[i] = "."}) <= 1

\* _to_float(x): float(str(x).strip()), None when float() raises; literals
\* are signed decimals without exponent or underscore, nan, inf, infinity
ToFloat(x) ==
    LET s == Strip(x)
        b == Lower(Unsigned(s))
        p == IndexOf(b, ".")
        frac == IF p = 0 THEN 0 ELSE Len(b) - p
    IN  IF x = Null THEN NoneNum
        ELSE IF b = <<"n","a","n">> THEN NaN
        ELSE IF b \in {<<"i","n","f">>, <<"i","n","f","i","n","i","t","y">>}
             THEN Inf(SignOf(s))
        ELSE IF ~IsDecimalBody(b) THEN NoneNum
        ELSE FloatNum(SignOf(s) * IntOf(RemoveChar(b, ".")), Pow10(frac))

\* Cleaner.__init__ defaults
GPA_MAX == 5
YEAR_MIN == 1950
YEAR_MAX == 2035

\* start_year: None unless year_min <= sy <= year_max
StartYear(cfg, x) ==
    LET sy == ToInt(x)
    IN  IF sy = NoneNum \/ sy.num < cfg.year_min \/ sy.num > cfg.year_max
        THEN NoneNum ELSE sy

\* gpa: None when unparsable, below 0.0 or above gpa_max
Gpa(cfg, x) ==
    LET gpa == ToFloat(x)
    IN  IF gpa = NoneNum \/ NumLt(gpa, FloatNum(0, 1)) \/ NumLt(FloatNum(cfg.gpa_max, 1), gpa)
        THEN NoneNum ELSE gpa

\* gre_total, gre_verbal: the int when lo <= v <= hi, else None
GreInt(x, lo, hi) ==
    LET v == ToInt(x)
    IN  IF v # NoneNum /\ lo <= v.num /\ v.num <= hi THEN v ELSE NoneNum

\* gre_aw: the float when 0.0 <= v <= 6.0, else None
GreAw(x) ==
    LET v == ToFloat(x)
    IN  IF v # NoneNum /\ NumLe(FloatNum(0, 1), v) /\ NumLe(v, FloatNum(6, 1))
        THEN v ELSE NoneNum

\* str.startswith(p)
StartsWith(s, p) == Len(s) >= Len(p) /\ SubSeq(s, 1, Len(p)) = p

\* s.replace(a, b) for single characters; "rsquo" stands for U+2019
ReplaceChar(s, a, b) == [i \in 1..Len(s) |-> IF s[i] = a THEN b ELSE s[i]]

D_Masters == <<"M","a","s","t","e","r","s">>
D_PhD == <<"P","h","D">>
D_MFA == <<"M","F","A">>
D_MBA == <<"M","B","A">>
D_JD == <<"J","D">>
D_EdD == <<"E","d","D">>
D_PsyD == <<"P","s","y","D">>
D_Other == <<"O","t","h","e","r">>

DEGREE_ALLOWED == {D_Masters, D_PhD, D_MFA, D_MBA, D_JD, D_EdD, D_PsyD, D_Other}

T_Fall == <<"F","a","l","l">>
T_Spring == <<"S","p","r","i","n","g">>
T_Summer == <<"S","u","m","m","e","r">>

TERM_ALLOWED == {T_Fall, T_Spring, T_Summer}

Z_International == <<"I","n","t","e","r","n","a","t","i","o","n","a","l">>
Z_American == <<"A","m","e","r","i","c","a","n">>

CITIZENSHIP_ALLOWED == {Z_International, Z_American}

\* degree of _normalize_row: deg_map.get(deg_field)
DegreeKeepRaw(x) == NormStr(x)
Degree(x) ==
    LET draw == NormStr(x)
        f    == ReplaceChar(RemoveChar(Lower(draw), "."), "rsquo", "'")
    IN  IF draw = Null THEN Null
        ELSE IF f \in {<<"m","a","s","t","e","r","s">>, <<"m","a","s","t","e","r","'","s">>, <<"m","s">>} THEN D_Masters
        ELSE IF f = <<"p","h","d">> THEN D_PhD
        ELSE IF f = <<"m","f","a">> THEN D_MFA
        ELSE IF f = <<"m","b","a">> THEN D_MBA
        ELSE IF f = <<"j","d">> THEN D_JD
        ELSE IF f = <<"e","d","d">> THEN D_EdD
        ELSE IF f = <<"p","s","y","d">> THEN D_PsyD
        ELSE IF f = <<"o","t","h","e","r">> THEN D_Other
        ELSE Null

\* start_term of _normalize_row
StartTerm(x) ==
    LET traw == NormStr(x)
        t    == Lower(traw)
    IN  IF traw = Null THEN Null
        ELSE IF t \in {<<"f","a","l","l">>, <<"a","u","t","u","m","n">>} THEN T_Fall
        ELSE IF t = <<"s","p","r","i","n","g">> THEN T_Spring
        ELSE IF StartsWith(t, <<"s","u","m","m","e","r">>) THEN T_Summer
        ELSE IF t = <<"w","i","n","t","e","r">> THEN T_Spring
        ELSE IF t \in {<<"q","1">>, <<"q","u","a","r","t","e","r","1">>} THEN T_Spring
        ELSE IF t \in {<<"q","2">>, <<"q","u","a","r","t","e","r","2">>} THEN T_Summer
        ELSE IF t \in {<<"q","3">>, <<"q","u","a","r","t","e","r","3">>} THEN T_Fall
        ELSE IF t \in {<<"q","4">>, <<"q","u","a","r","t","e","r","4">>} THEN T_Fall
        ELSE Null

\* citizenship of _normalize_row
Citizenship(x) ==
    LET craw == NormStr(x)
        c    == Lower(craw)
    IN  IF craw = Null THEN Null
        ELSE IF StartsWith(c, <<"i","n","t","e","r">>) THEN Z_International
        ELSE IF StartsWith(c, <<"a","m","e","r">>) THEN Z_American
        ELSE Null

(***************************************************************************)
(* module_2/clean.py: Cleaner                                              *)
(***************************************************************************)
S_Accepted   == <<"A","c","c","e","p","t","e","d">>
S_Rejected   == <<"R","e","j","e","c","t","e","d">>
S_Interview  == <<"I","n","t","e","r","v","i","e","w">>
S_Waitlisted == <<"W","a","i","t","l","i","s","t","e","d">>
S_Pending    == <<"P","e","n","d","i","n","g">>

STATUS_ALLOWED == {S_Accepted, S_Rejected, S_Interview, S_Waitlisted, S_Pending}

REQUIRED_FIELDS == {"program", "university", "date_added", "url", "status"}

\* status canonicalization of _normalize_row
\* the mapping with its final `else` taken for empty text as well
StatusCanonEmptyPending(x) ==
    LET t == RemoveChar(Lower(NormStr(x)), " ")
    IN  IF NormStr(x) # Null /\ Contains(t, <<"w","a","i","t">>) THEN S_Waitlisted
        ELSE IF NormStr(x) # Null /\ t = Lower(S_Accepted) THEN S_Accepted
        ELSE IF NormStr(x) # Null /\ t = Lower(S_Rejected) THEN S_Rejected
        ELSE IF NormStr(x) # Null /\ t = Lower(S_Interview) THEN S_Interview
        ELSE S_Pending

StatusCanon(x) ==
    LET sraw == NormStr(x)
        t    == RemoveChar(Lower(sraw), " ")
    IN  IF sraw = Null THEN Null
        ELSE IF Contains(t, <<"w","a","i","t">>) THEN S_Waitlisted
        ELSE IF t = Lower(S_Accepted) THEN S_Accepted
        ELSE IF t = Lower(S_Rejected) THEN S_Rejected
        ELSE IF t = Lower(S_Interview) THEN S_Interview
        ELSE S_Pending

\* _drop_to_schema and _normalize_row of a raw item that is a dict (a
\* missing key reads as None); accept_date and reject_date are left out
NormalizeRow(cfg, raw) ==
    [program     |-> NormStr(raw.program),
     university  |-> NormStr(raw.university),
     url         |-> NormStr(raw.url),
     status      |-> StatusCanon(raw.status),
     date_added  |-> DateIso(raw.date_added),
     comments    |-> NormStr(raw.comments),
     degree      |-> Degree(raw.degree),
     start_term  |-> StartTerm(raw.start_term),
     start_year  |-> StartYear(cfg, raw.start_year),
     citizenship |-> Citizenship(raw.citizenship),
     gpa         |-> Gpa(cfg, raw.gpa),
     gre_total   |-> GreInt(raw.gre_total, 260, 340),
     gre_verbal  |-> GreInt(raw.gre_verbal, 130, 170),
     gre_aw      |-> GreAw(raw.gre_aw)]

\* `isinstance(v, str) and v.strip()` of a normalized value
NonEmptyStr(v) == v # Null /\ Strip(v) # <<>>

\* the tuple checked by clean_rows
must_have == {"program", "university", "date_added", "url", "status"}

\* the must_have loop of clean_rows: every field of it is a non-empty string
GateFourFields(norm) == \A k \in must_have \ {"status"} : NonEmptyStr(norm[k])
PassesGate(norm) == \A k \in must_have : NonEmptyStr(norm[k])

\* cls(**row) of the dataclass handed to enable_dataclass_validation:
\* ApplicantEntry takes every schema row; StrictEntry is a caller's dataclass
\* whose __post_init__ insists on an ISO date_added
ClsRaises(cls, row) ==
    CASE cls = "ApplicantEntry" -> FALSE
      [] cls = "StrictEntry"    -> ~IsIsoDate(row.date_added)
      [] OTHER                  -> FALSE

\* validate_row_with_dataclass(row) raises
ValidationNeverRaises(cfg, row) == FALSE
ValidationRaises(cfg, row) ==
    /\ cfg.validate_with_dataclass
    /\ cfg.entry_cls # "None"
    /\ ClsRaises(cfg.entry_cls, row)

\* _dedupe_by_url(rows)
RECURSIVE DedupeLoop(_, _, _)
DedupeLoop(rows, seen, out) ==
    IF rows = <<>> THEN out
    ELSE LET r == Head(rows)
             u == r.url
         IN  IF u = Null \/ u = <<>>
             THEN DedupeLoop(Tail(rows), seen, Append(out, r))
             ELSE IF Strip(u) \in seen
                  THEN DedupeLoop(Tail(rows), seen, out)
                  ELSE DedupeLoop(Tail(rows), seen \cup {Strip(u)}, Append(out, r))

\* the same loop keeping the last row of each URL
RECURSIVE DedupeKeepLast(_, _, _)
DedupeKeepLast(rows, seen, out) ==
    IF rows = <<>> THEN out
    ELSE LET r == rows[Len(rows)]
             u == r.url
             front == SubSeq(rows, 1, Len(rows) - 1)
         IN  IF u = Null \/ u = <<>>
             THEN DedupeKeepLast(front, seen, <<r>> \o out)
             ELSE IF Strip(u) \in seen
                  THEN DedupeKeepLast(front, seen, out)
                  ELSE DedupeKeepLast(front, seen \cup {Strip(u)}, <<r>> \o out)

\* the same loop putting each kept row in front
RECURSIVE DedupePrepend(_, _, _)
DedupePrepend(rows, seen, out) ==
    IF rows = <<>> THEN out
    ELSE LET r == Head(rows)
             u == r.url
         IN  IF u = Null \/ u = <<>>
             THEN DedupePrepend(Tail(rows), seen, <<r>> \o out)
             ELSE IF Strip(u) \in seen
                  THEN DedupePrepend(Tail(rows), seen, out)
                  ELSE DedupePrepend(Tail(rows), seen \cup {Strip(u)}, <<r>> \o out)

DedupeNewestFirst(cfg, rows) ==
    IF cfg.dedupe_by_url THEN DedupePrepend(rows, {}, <<>>) ELSE rows

\* the loop with a `seen` set that outlives the call: it starts from the
\* URLs of the rows returned before
DedupeRemembering(cfg, rows) ==
    IF cfg.dedupe_by_url
    THEN DedupeLoop(rows, {returned.rows[i].url : i \in 1..Len(returned.rows)}, <<>>)
    ELSE rows

DedupeLastWins(cfg, rows) ==
    IF cfg.dedupe_by_url THEN DedupeKeepLast(rows, {}, <<>>) ELSE rows
DedupeByUrl(cfg, rows) ==
    IF cfg.dedupe_by_url THEN DedupeLoop(rows, {}, <<>>) ELSE rows

\* the for loop of clean_rows over the raw items: the rows appended to
\* `cleaned`, or the exception of validate_row_with_dataclass
RECURSIVE CleanLoop(_, _, _)
CleanLoop(cfg, items, cleaned) ==
    IF items = <<>> THEN [raised |-> FALSE, rows |-> cleaned]
    ELSE LET Body(raw, norm) ==
                 IF ~raw.isdict THEN CleanLoop(cfg, Tail(items), cleaned)
                 ELSE IF ~PassesGate(norm) THEN CleanLoop(cfg, Tail(items), cleaned)
                 ELSE IF ValidationRaises(cfg, norm) THEN [raised |-> TRUE, rows |-> <<>>]
                 ELSE CleanLoop(cfg, Tail(items), Append(cleaned, norm))
         IN  Body(Head(items), NormalizeRow(cfg, Head(items)))

\* clean_rows(rows)
CleanRows(cfg, items) ==
    LET Deduped(res) ==
            IF res.raised THEN res
            ELSE [raised |-> FALSE, rows |-> DedupeByUrl(cfg, res.rows)]
    IN  Deduped(CleanLoop(cfg, items, <<>>))

\* ---- raw snapshots ----
S_Url1 == <<"x","/","1">>
S_Url2 == <<"x","/","2">>

RawBase ==
    [isdict     |-> TRUE,
     program    |-> <<"C","S">>,
     university |-> <<"M","I","T">>,
     date_added |-> <<"2","0","2","4","-","0","1","-","0","5">>,
     url        |-> S_Url1,
     status     |-> S_Accepted,
     comments   |-> Null,
     degree     |-> Null, start_term |-> Null, start_year |-> Null,
     citizenship |-> Null, gpa |-> Null, gre_total |-> Null,
     gre_verbal |-> Null, gre_aw |-> Null]

\* a JSON array item that is no object
NotADict ==
    [isdict |-> FALSE, program |-> Null, university |-> Null, date_added |-> Null,
     url |-> Null, status |-> Null, comments |-> Null,
     degree |-> Null, start_term |-> Null, start_year |-> Null,
     citizenship |-> Null, gpa |-> Null, gre_total |-> Null,
     gre_verbal |-> Null, gre_aw |-> Null]

RawPool == {
    RawBase,
    [RawBase EXCEPT !.url = <<" ","x","/","1","\t">>,
                    !.status = <<"r","e","j","e","c","t","e","d">>],
    [RawBase EXCEPT !.url = S_Url2,
                    !.status = <<"W","a","i","t"," ","l","i","s","t","e","d">>,
                    !.date_added = <<"J","a","n"," ","5",","," ","2","0","2","4">>,
                    !.comments = <<"o","k">>],
    [RawBase EXCEPT !.program = Null],
    [RawBase EXCEPT !.url = S_Url2, !.status = <<>>],
    [RawBase EXCEPT !.date_added = <<"<","i",">","<","/","i",">">>],
    [RawBase EXCEPT !.date_added = <<"5","/","1","/","2","4">>,
                    !.status = <<"x","y","z">>,
                    !.university = <<"<","b",">","J","H","U","<","/","b",">">>],
    NotADict }

RawSnapshots == SeqsUpTo(RawPool, MaxRows)

Absent == [exists |-> FALSE, rows |-> <<>>]

File(rows) == [exists |-> TRUE, rows |-> rows]

\* Cleaner(...) with the default numeric settings
CleanerCfg(d, v, cls) ==
    [dedupe_by_url |-> d, validate_with_dataclass |-> v, entry_cls |-> cls,
     gpa_max |-> GPA_MAX, year_min |-> YEAR_MIN, year_max |-> YEAR_MAX]

\* Cleaner()
DefaultCfg == CleanerCfg(TRUE, TRUE, "None")

\* a cleaned snapshot left by an earlier run
OldCleaned == File(<<NormalizeRow(DefaultCfg, [RawBase EXCEPT !.url = S_Url2])>>)

Configs ==
    { CleanerCfg(d, v.on, v.cls) :
        d \in BOOLEAN,
        v \in { [on |-> TRUE,  cls |-> "ApplicantEntry"],
                [on |-> TRUE,  cls |-> "StrictEntry"],
                [on |-> FALSE, cls |-> "StrictEntry"] } }
    \cup { CleanerCfg(TRUE, TRUE, "None") }

NoResult == [has |-> FALSE, rows |-> <<>>]

\* no second run yet
NoRun == [ran |-> FALSE, raised |-> FALSE, rows |-> <<>>]

\* _load_json(path): [] when the file is missing
LoadJson(f) == IF f.exists THEN f.rows ELSE <<>>

\* clean_file(in_path, out_path): load, clean_rows, _save_json; an exception
\* of clean_rows leaves before anything is saved or returned
CleanFile ==
    /\ cpc = "clean"
    /\ LET Save(res) ==
               IF res.raised
               THEN /\ cpc' = "raised"
                    /\ UNCHANGED <<cleanedFile, returned>>
               ELSE /\ cpc' = "cleaned"
                    /\ cleanedFile' = File(res.rows)
                    /\ returned' = [has |-> TRUE, rows |-> res.rows]
       IN  Save(CleanRows(cleaner, LoadJson(rawFile)))
    /\ UNCHANGED <<cleaner, rawFile, cleanedWas, firstRun>>
    /\ UNCHANGED <<pullVars, loadVars, enrichVars, pipeVars>>

\* the same Cleaner cleans the same raw snapshot a second time
CleanFileAgain ==
    /\ cpc \in {"next_stage", "raised"}
    /\ firstRun' = [ran |-> TRUE, raised |-> cpc = "raised", rows |-> returned.rows]
    /\ cleanedWas' = cleanedFile
    /\ LET Save(res) ==
               IF res.raised
               THEN /\ cpc' = "raised_again"
                    /\ returned' = NoResult
                    /\ UNCHANGED cleanedFile
               ELSE /\ cpc' = "cleaned_again"
                    /\ cleanedFile' = File(res.rows)
                    /\ returned' = [has |-> TRUE, rows |-> res.rows]
       IN  Save(CleanRows(cleaner, LoadJson(rawFile)))
    /\ UNCHANGED <<cleaner, rawFile>>
    /\ UNCHANGED <<pullVars, loadVars, enrichVars, pipeVars>>

\* main() goes on to the stage after cleaning
MainProceeds ==
    /\ cpc = "cleaned"
    /\ cpc' = "next_stage"
    /\ UNCHANGED <<cleaner, rawFile, cleanedFile, returned, cleanedWas, firstRun>>
    /\ UNCHANGED <<pullVars, loadVars, enrichVars, pipeVars>>

\* ---- single rows that vary the optional fields ----
DegreePool == {Null, <<"P","h",".","D",".">>, <<"m","a","s","t","e","r","rsquo","s">>, <<"B","S","c">>, <<"M","S">>}

TermPool == {Null, <<"A","u","t","u","m","n">>, <<"S","u","m","m","e","r"," ","2","0","2","5">>, <<"w","i","n","t","e","r">>, <<"Q","3">>, <<"M","o","n","s","o","o","n">>}

CitizenshipPool == {Null, <<"i","n","t","e","r","n","a","t","i","o","n","a","l"," ","s","t","u","d","e","n","t">>, <<"A","m","e","r","i","c","a","n">>, <<"O","t","h","e","r">>}

StatusPool == {<<"a","c","c","e","p","t","e","d">>, <<"W","a","i","t"," ","l","i","s","t","e","d">>, <<"x","y","z">>, <<"I","N","T","E","R","V","I","E","W"," ">>,
               <<"P","e","n","d","i","n","g">>, <<"a"," ","w","A","i","t">>, <<" ">>, Null}

\* the decimal literals of the integers around a bound
Around(n) == {Decimal(k) : k \in (n - 2)..(n + 2)}

NoNumberPool == {Null, <<"a","b","c">>, <<"3",".","5">>, <<" ","2","_","0"," ">>, <<>>}

YearPool == Around(YEAR_MIN) \cup Around(YEAR_MAX) \cup Around(2000) \cup NoNumberPool

GpaPool == {Null, <<"3",".","8","5">>, <<"5",".","0">>, <<"5",".","0","1">>, <<"4",".","0">>, <<"4",".","5">>, <<"-","0",".","5">>, <<"0">>, <<"n","a","n">>, <<"i","n","f">>, <<"a","b","c">>}

GreTotalPool == Around(260) \cup Around(340) \cup NoNumberPool

GreVerbalPool == Around(130) \cup Around(170) \cup NoNumberPool

GreAwPool == {Null, <<"0">>, <<"6",".","0">>, <<"6",".","5">>, <<"4",".","5">>, <<"-","1">>, <<"n","a","n">>, <<"x">>}

FieldRows ==
    { [RawBase EXCEPT !.degree = d, !.start_term = t, !.citizenship = c, !.status = s] :
        d \in DegreePool, t \in TermPool, c \in CitizenshipPool, s \in StatusPool }
    \cup { [RawBase EXCEPT !.gpa = g, !.gre_aw = a] : g \in GpaPool, a \in GreAwPool }
    \cup { [RawBase EXCEPT !.gre_total = g, !.gre_verbal = v] :
        g \in GreTotalPool, v \in GreVerbalPool }
    \cup { [RawBase EXCEPT !.start_year = y] : y \in YearPool }

\* Cleaner() and a Cleaner with narrower numeric settings
FieldConfigs ==
    { DefaultCfg, [DefaultCfg EXCEPT !.gpa_max = 4, !.year_min = 2000, !.year_max = 2000] }

InitFields ==
    /\ cleaner \in FieldConfigs
    /\ rawFile \in {File(<<r>>) : r \in FieldRows}
    /\ cleanedFile = Absent
    /\ cleanedWas = Absent
    /\ cpc = "clean"
    /\ returned = NoResult
    /\ firstRun = NoRun

(***************************************************************************)
(* Enrichment: module_2/clean.py (LLMClient, Cleaner.extend_with_llm),     *)
(* module_2/app.py (LLM stage of main) and module_3 run_module2_cli        *)
(***************************************************************************)
\* a key that a dict does not carry
Missing == <<"<absent>">>

\* a JSON number where a string was expected
JsonNumber == <<"<int>">>

\* isinstance(v, str)
IsStr(v) == v \notin {Null, Missing, JsonNumber}

\* bool(v) of a value read with d.get(k)
Truthy(v) == v \notin {Null, <<>>}

\* d.get(k)
Get(d, k) == IF d[k] = Missing THEN Null ELSE d[k]

\* a or b
PyOr(a, b) == IF Truthy(a) THEN a ELSE b

Min(a, b) == IF a <= b THEN a ELSE b

\* the keys a line of the service's JSONL output may carry
LabelKeys ==
    {"llm-generated-program", "program_canon", "standardized_program",
     "llm-generated-university", "university_canon", "standardized_university"}

NoKeys == [k \in LabelKeys |-> Missing]

\* one line of out.jsonl: a JSON object, or text json.loads rejects
JsonLine(d) == [json |-> TRUE, d |-> d]

BadLine == [json |-> FALSE, d |-> NoKeys]

S_CS == <<"C","S">>
S_MIT == <<"M","I","T">>

LinePool == {
    JsonLine([NoKeys EXCEPT !["program_canon"] = S_CS, !["university_canon"] = S_MIT]),
    JsonLine([NoKeys EXCEPT !["llm-generated-program"] = <<" ","M","a","t","h"," ">>,
                            !["llm-generated-university"] = <<>>,
                            !["university_canon"] = JsonNumber]),
    JsonLine([NoKeys EXCEPT !["llm-generated-program"] = <<>>,
                            !["program_canon"] = <<>>,
                            !["standardized_program"] = <<>>,
                            !["llm-generated-university"] = <<>>]),
    JsonLine([NoKeys EXCEPT !["program_canon"] = <<" ">>,
                            !["standardized_university"] = <<"J","H","U">>]),
    BadLine }

NullLabel == [program_canon |-> Null, university_canon |-> Null]

\* canonize_batch._row_to_pair(d)
RowToPair(d) ==
    [program_canon |->
        PyOr(Get(d, "llm-generated-program"),
             PyOr(Get(d, "program_canon"), Get(d, "standardized_program"))),
     university_canon |->
        PyOr(Get(d, "llm-generated-university"),
             PyOr(Get(d, "university_canon"), Get(d, "standardized_university")))]

\* the JSONL loop of canonize_batch: a line that does not parse is counted
\* as a failure and left out
RECURSIVE ParseLines(_)
ParseLines(lines) ==
    IF lines = <<>> THEN <<>>
    ELSE IF Head(lines).json
         THEN <<RowToPair(Head(lines).d)>> \o ParseLines(Tail(lines))
         ELSE ParseLines(Tail(lines))

\* n null labels
NullLabels(n) == [i \in 1..n |-> NullLabel]

\* the tail of canonize_batch: pad with null labels, cut to n
NoPad(results, n) == results
PadTo(results, n) ==
    IF Len(results) < n
    THEN results \o NullLabels(n - Len(results))
    ELSE SubSeq(results, 1, n)

\* LLMClient.canonize_batch(texts) for n texts against backend b
CanonizeBatch(b, n) ==
    IF b.run = "raises" THEN NullLabels(n)
    ELSE IF ~b.out_exists THEN NullLabels(n)
    ELSE PadTo(ParseLines(b.lines), n)

\* a cleaned row as the enrichment step sees it (canon keys not yet there)
EnrichRow(p, u, url) ==
    [program |-> p, university |-> u, url |-> url,
     program_canon |-> Missing, university_canon |-> Missing]

EnrichRowPool == { EnrichRow(<<"c","s">>, <<"m","i","t">>, S_Url1),
                   EnrichRow(<<"E","E">>, <<"J","H","U">>, S_Url2) }

\* isinstance(c, str) and c.strip()
Accepted(c) == IsStr(c) /\ Strip(c) # <<>>

\* the merge of extend_with_llm: attach the canon fields, override the
\* primary fields with accepted canonical values
\* a merge that builds the output row from the label alone
MergeLabelOnly(r, lab) ==
    [r EXCEPT !.program_canon = lab.program_canon,
              !.university_canon = lab.university_canon,
              !.program = IF Accepted(lab.program_canon)
                          THEN Strip(lab.program_canon) ELSE r.program,
              !.university = IF Accepted(lab.university_canon)
                             THEN Strip(lab.university_canon) ELSE r.university,
              !.url = Null]

Merge(r, lab) ==
    [r EXCEPT !.program_canon = lab.program_canon,
              !.university_canon = lab.university_canon,
              !.program = IF Accepted(lab.program_canon)
                          THEN Strip(lab.program_canon) ELSE r.program,
              !.university = IF Accepted(lab.university_canon)
                             THEN Strip(lab.university_canon) ELSE r.university]

\* cls(**row) for a merged row: ApplicantEntryExtended takes it,
\* ApplicantEntry has no canon parameters (TypeError), StrictExtended is a
\* caller's dataclass whose __post_init__ insists on str | None canon fields
ExtClsRaises(cls, row) ==
    CASE cls = "ApplicantEntryExtended" -> FALSE
      [] cls = "ApplicantEntry"         -> TRUE
      [] cls = "StrictExtended"         ->
            \/ row.program_canon = JsonNumber
            \/ row.university_canon = JsonNumber
      [] OTHER                          -> FALSE

\* the guard around validate_extended_row in extend_with_llm
ExtValidationOn(cfg) ==
    cfg.validate_with_dataclass /\ (cfg.entry_cls # "None" \/ cfg.ext_cls # "None")

\* validate_extended_row(row) raises
ValidateExtendedRaises(cfg, row) ==
    /\ cfg.validate_with_dataclass
    /\ IF cfg.ext_cls # "None" THEN ExtClsRaises(cfg.ext_cls, row)
       ELSE IF cfg.entry_cls # "None" THEN ExtClsRaises(cfg.entry_cls, row)
       ELSE FALSE

\* the except branch of extend_with_llm
RollBackCanonOnly(r, out) ==
    [out EXCEPT !.program_canon = Null, !.university_canon = Null]
RollBack(r, out) ==
    [out EXCEPT !.program = r.program, !.university = r.university,
                !.program_canon = Null, !.university_canon = Null]

\* one turn of the loop of extend_with_llm
ExtendRow(cfg, r, lab) ==
    LET out == Merge(r, lab)
    IN  IF ExtValidationOn(cfg) /\ ValidateExtendedRaises(cfg, out)
        THEN RollBack(r, out)
        ELSE out

\* Cleaner.extend_with_llm(rows, llm_client) with the LLMClient on backend b
CleanerExtendWithLlm(cfg, rows, b) ==
    IF rows = <<>> THEN <<>>
    ELSE LET labels == CanonizeBatch(b, Len(rows))
         IN  [i \in 1..Min(Len(rows), Len(labels)) |-> ExtendRow(cfg, rows[i], labels[i])]

\* run_module2_cli (module_3), use_llm branch: _run raises on a failed
\* child, out.open on a missing file, json.loads on a bad line
CliRaises(b) ==
    \/ b.run # "ok"
    \/ ~b.out_exists
    \/ \E i \in 1..Len(b.lines) : ~b.lines[i].json

\* the merge loop of run_module2_cli
CliMerged(cleaned, ext) ==
    [i \in 1..Len(cleaned) |->
        IF i <= Len(ext)
        THEN [cleaned[i] EXCEPT
                !.program_canon =
                    PyOr(Get(ext[i].d, "program_canon"), Get(ext[i].d, "llm-generated-program")),
                !.university_canon =
                    PyOr(Get(ext[i].d, "university_canon"),
                         Get(ext[i].d, "llm-generated-university"))]
        ELSE cleaned[i]]

\* ---- the enrichment stage as a state machine ----
ExtCfg(v, entry, ext) ==
    [validate_with_dataclass |-> v, entry_cls |-> entry, ext_cls |-> ext]

\* module-level extend_with_llm(validate_with_dataclass=True), as main() calls it
AppCfg == ExtCfg(TRUE, "ApplicantEntry", "ApplicantEntryExtended")

\* Cleaners a caller of Cleaner.extend_with_llm can have built
ApiCfgs == { ExtCfg(TRUE, "ApplicantEntry", "None"),
             ExtCfg(TRUE, "ApplicantEntry", "StrictExtended"),
             ExtCfg(FALSE, "None", "None") }

\* run_module2_cli builds no Cleaner
NoCfg == ExtCfg(FALSE, "None", "None")

EnrichSetups ==
    {[path |-> "app", cfg |-> AppCfg]}
        \cup {[path |-> "api", cfg |-> c] : c \in ApiCfgs}
        \cup {[path |-> "cli", cfg |-> NoCfg]}

\* what the backend does with this batch: the LLM host comes up or not; the
\* child process raises in subprocess.run (timeout, OSError), exits non-zero
\* or exits 0; out.jsonl is written or not, with these lines
Backends ==
    {[host_up |-> h, run |-> "raises", out_exists |-> FALSE, lines |-> <<>>] :
        h \in BOOLEAN}
    \cup {[host_up |-> h, run |-> r, out_exists |-> FALSE, lines |-> <<>>] :
        h \in BOOLEAN, r \in {"ok", "exit_error"}}
    \cup {[host_up |-> h, run |-> r, out_exists |-> TRUE, lines |-> ls] :
        h \in BOOLEAN, r \in {"ok", "exit_error"}, ls \in SeqsUpTo(LinePool, MaxLines)}

NotHanded == [has |-> FALSE, rows |-> <<>>]

\* main() of module_2/app.py: start_llm_host_if_needed raises RuntimeError
\* when the host neither answers nor comes up
StartLlmHost ==
    /\ epath = "app" /\ epc = "start"
    /\ epc' = IF backend.host_up THEN "host_ready" ELSE "aborted"
    /\ UNCHANGED <<epath, ecfg, einput, backend, eout, handed>>
    /\ UNCHANGED <<pullVars, loadVars, cleanVars, pipeVars>>

\* extend_with_llm of clean.py: canonize_batch, merge, validate, roll back
ExtendWithLlm ==
    /\ \/ epath = "app" /\ epc = "host_ready"
       \/ epath = "api" /\ epc = "start"
    /\ eout' = CleanerExtendWithLlm(ecfg, einput, backend)
    /\ epc' = "extended"
    /\ UNCHANGED <<epath, ecfg, einput, backend, handed>>
    /\ UNCHANGED <<pullVars, loadVars, cleanVars, pipeVars>>

\* run_module2_cli(use_llm=True) of module_3 after the cleaned rows are read
RunModule2CliLlm ==
    /\ epath = "cli" /\ epc = "start"
    /\ IF CliRaises(backend)
       THEN /\ epc' = "aborted"
            /\ UNCHANGED eout
       ELSE /\ epc' = "extended"
            /\ eout' = CliMerged(einput, backend.lines)
    /\ UNCHANGED <<epath, ecfg, einput, backend, handed>>
    /\ UNCHANGED <<pullVars, loadVars, cleanVars, pipeVars>>

\* the run goes on after the enrichment stage: the final records are
\* handed to the next stage
PipelineComplete ==
    /\ epc = "extended"
    /\ epc' = "complete"
    /\ handed' = [has |-> TRUE, rows |-> eout]
    /\ UNCHANGED <<epath, ecfg, einput, backend, eout>>
    /\ UNCHANGED <<pullVars, loadVars, cleanVars, pipeVars>>

InitEnrich ==
    /\ \E s \in EnrichSetups : epath = s.path /\ ecfg = s.cfg
    /\ einput \in SeqsUpTo(EnrichRowPool, MaxERows)
    /\ backend \in Backends
    /\ epc = "start"
    /\ eout = <<>>
    /\ handed = NotHanded

ParkedEnrich ==
    /\ epath = "none"
    /\ ecfg = NoCfg
    /\ einput = <<>>
    /\ backend = [host_up |-> TRUE, run |-> "ok", out_exists |-> FALSE, lines |-> <<>>]
    /\ epc = "parked"
    /\ eout = <<>>
    /\ handed = NotHanded

NextEnrich ==
    \/ StartLlmHost
    \/ ExtendWithLlm
    \/ RunModule2CliLlm
    \/ PipelineComplete

(***************************************************************************)
(* Initial states and next-state relations                                 *)
(***************************************************************************)
InitPull ==
    /\ variant \in Variants
    /\ lock = 0
    /\ pc = [r \in Reqs |-> "idle"]
    /\ wants_json = [r \in Reqs |-> FALSE]
    /\ resp = [r \in Reqs |-> NoResp]
    /\ arrivedBusy = [r \in Reqs |-> FALSE]
    /\ svcCalls = [r \in Reqs |-> 0]
    /\ svcOutcome = [r \in Reqs |-> "none"]

ParkedPull ==
    /\ variant = 0
    /\ lock = 0
    /\ pc = [r \in Reqs |-> "idle"]
    /\ wants_json = [r \in Reqs |-> FALSE]
    /\ resp = [r \in Reqs |-> NoResp]
    /\ arrivedBusy = [r \in Reqs |-> FALSE]
    /\ svcCalls = [r \in Reqs |-> 0]
    /\ svcOutcome = [r \in Reqs |-> "none"]

InitLoad ==
    /\ store = <<>>
    /\ lpc = [p \in Loaders |-> "idle"]
    /\ batch = [p \in Loaders |-> <<>>]
    /\ idx = [p \in Loaders |-> 1]
    /\ stats = [p \in Loaders |-> ZeroStats]
    /\ outcomes = [p \in Loaders |-> <<>>]
    /\ startStore = [p \in Loaders |-> <<>>]
    /\ quiet = [p \in Loaders |-> TRUE]
    /\ repeat = [p \in Loaders |-> FALSE]
    /\ insertedBy = [u \in Urls |-> 0]
    /\ calls = 0

InitClean ==
    /\ cleaner \in Configs
    /\ rawFile \in {Absent} \cup {File(rows) : rows \in RawSnapshots}
    /\ cleanedFile \in {Absent, OldCleaned}
    /\ cleanedWas = cleanedFile
    /\ cpc = "clean"
    /\ returned = NoResult
    /\ firstRun = NoRun

ParkedClean ==
    /\ cleaner = DefaultCfg
    /\ rawFile = Absent
    /\ cleanedFile = Absent
    /\ cleanedWas = Absent
    /\ cpc = "parked"
    /\ returned = NoResult
    /\ firstRun = NoRun

NextPull ==
    \E r \in Reqs :
        \/ Arrive(r)
        \/ CheckLocked(r)
        \/ Acquire(r)
        \/ SvcStart(r)
        \/ SvcEnd(r)
        \/ Finish(r)
        \/ NextRequest(r)

NextLoad ==
    \E p \in Loaders :
        \/ StartLoad(p)
        \/ LoadRow(p)
        \/ LoadFail(p)
        \/ LoadReturn(p)

NextClean ==
    \/ CleanFile
    \/ MainProceeds
    \/ CleanFileAgain

(***************************************************************************)
(* routes.py: POST /update-analysis                                        *)
(***************************************************************************)
\* the lock value while the update thread holds _pull_lock (module 5)
UpdHolder == -1

\* a pull cycle is in flight: a /pull-data request is inside `with _pull_lock`
PullInFlight == \E r \in Reqs : lock = r

\* Response after analysis_to_files() returned (`o` = "returned") or raised.
\*   module 3: flash and redirect either way
\*   module 4: 200 / 500 JSON, or flash and redirect
\*   module 5: 200 / 500 JSON, or 303; an exception of an HTML request is re-raised
UpdResponse(v, json, o) ==
    IF o = "returned"
    THEN IF v \in {4, 5} /\ json THEN [status |-> 200, kind |-> "ok"]
         ELSE [status |-> IF v = 5 THEN 303 ELSE 302, kind |-> "ok"]
    ELSE IF v \in {4, 5} /\ json THEN [status |-> 500, kind |-> "error"]
         ELSE IF v = 5 THEN [status |-> 500, kind |-> "unhandled"]
         ELSE [status |-> 302, kind |-> "error"]

\* Flask dispatches the request to update_analysis() on a worker thread.
UpdArrive ==
    /\ upd.pc = "idle"
    /\ \E j \in (IF variant = 3 THEN {FALSE} ELSE BOOLEAN) :
          upd' = [upd EXCEPT !.json = j, !.arrivedBusy = PullInFlight,
                             !.pc = IF HasBusyCheck(variant) THEN "check" ELSE "acquire"]
    /\ UNCHANGED <<pullVars, loadVars, cleanVars, enrichVars>>
    /\ UNCHANGED <<cyc, crawl, snap, page, adp>>

\* modules 3 and 4: `if _pull_lock.locked(): return busy`, else
\* analysis_to_files() is called without the lock
UpdCheck ==
    /\ upd.pc = "check"
    /\ upd' = IF Locked
              THEN [upd EXCEPT !.resp = BusyResponse(variant, upd.json), !.pc = "done"]
              ELSE [upd EXCEPT !.ran = TRUE, !.pc = "analysis"]
    /\ UNCHANGED <<pullVars, loadVars, cleanVars, enrichVars>>
    /\ UNCHANGED <<cyc, crawl, snap, page, adp>>

\* module 5: `with _pull_lock:` entered, analysis_to_files() is called
UpdAcquire ==
    /\ upd.pc = "acquire"
    /\ lock = 0
    /\ lock' = UpdHolder
    /\ upd' = [upd EXCEPT !.ran = TRUE, !.pc = "analysis"]
    /\ UNCHANGED <<variant, pc, wants_json, resp, arrivedBusy, svcCalls, svcOutcome>>
    /\ UNCHANGED <<loadVars, cleanVars, enrichVars>>
    /\ UNCHANGED <<cyc, crawl, snap, page, adp>>

\* analysis_to_files() returns or raises; the handler returns its response
UpdEnd ==
    /\ upd.pc = "analysis"
    /\ \E o \in {"returned", "Exception"} :
          upd' = [upd EXCEPT !.resp = UpdResponse(variant, upd.json, o), !.pc = "done"]
    /\ lock' = IF lock = UpdHolder THEN 0 ELSE lock
    /\ UNCHANGED <<variant, pc, wants_json, resp, arrivedBusy, svcCalls, svcOutcome>>
    /\ UNCHANGED <<loadVars, cleanVars, enrichVars>>
    /\ UNCHANGED <<cyc, crawl, snap, page, adp>>

\* the update thread between requests
IdleUpd == [pc |-> "idle", json |-> FALSE, resp |-> NoResp, arrivedBusy |-> FALSE,
            ran |-> FALSE]

InitUpd == upd = IdleUpd

\* the worker thread is handed the next request
UpdNext ==
    /\ upd.pc = "done"
    /\ upd' = IdleUpd
    /\ UNCHANGED <<pullVars, loadVars, cleanVars, enrichVars>>
    /\ UNCHANGED <<cyc, crawl, snap, page, adp>>

NextAnalysis ==
    \/ NextPull
    \/ UpdArrive
    \/ UpdCheck
    \/ UpdAcquire
    \/ UpdEnd
    \/ UpdNext

AnalysisInit ==
    /\ InitPull /\ InitUpd /\ InitLoad /\ ParkedClean /\ ParkedEnrich
    /\ cyc = Off /\ crawl = Off /\ snap = Off /\ page = Off /\ adp = Off

SpecAnalysis == AnalysisInit /\ [][NextAnalysis]_vars

(***************************************************************************)
(* The snapshot files and their writers                                    *)
(***************************************************************************)
MaxChunks == 2   \* write() calls needed for the largest snapshot

\* the three places that write a snapshot path
Writers == {"Scraper._save_json", "Cleaner._save_json", "write_text"}

NoFile == [exists |-> FALSE, data |-> <<>>]

OnDisk(data) == [exists |-> TRUE, data |-> data]

\* snapshot contents, as the chunks the writer hands to write()
Contents == SeqsUpTo({"x", "y"}, MaxChunks) \ {<<>>}

\* temp file + os.replace, or Path.write_text straight onto the path
UsesTemp(w) == w \in {"Scraper._save_json", "Cleaner._save_json"}

InitSnap ==
    \E w \in Writers, old \in {NoFile} \cup {OnDisk(c) : c \in Contents}, new \in Contents :
        snap = [pc |-> "start", writer |-> w, old |-> old, new |-> new,
                file |-> old, tmp |-> NoFile, seen |-> NoFile, reads |-> 0]

\* open(..., "w"): creates or truncates the temp file, or the path itself
OpenForWrite ==
    /\ snap.pc = "start"
    /\ snap' = IF UsesTemp(snap.writer)
               THEN [snap EXCEPT !.tmp = OnDisk(<<>>), !.pc = "writing"]
               ELSE [snap EXCEPT !.file = OnDisk(<<>>), !.pc = "writing"]
    /\ UNCHANGED <<pullVars, loadVars, cleanVars, enrichVars>>
    /\ UNCHANGED <<upd, cyc, crawl, page, adp>>

\* one write() reaches the open file
WriteChunk ==
    /\ snap.pc = "writing"
    /\ LET Target == IF UsesTemp(snap.writer) THEN snap.tmp ELSE snap.file
           More(f) == OnDisk(Append(f.data, snap.new[Len(f.data) + 1]))
       IN  /\ Len(Target.data) < Len(snap.new)
           /\ snap' = IF UsesTemp(snap.writer)
                      THEN [snap EXCEPT !.tmp = More(Target)]
                      ELSE [snap EXCEPT !.file = More(Target)]
    /\ UNCHANGED <<pullVars, loadVars, cleanVars, enrichVars>>
    /\ UNCHANGED <<upd, cyc, crawl, page, adp>>

\* the writer fails partway (disk full, process killed): the file is closed
\* as it is
WriteFails ==
    /\ snap.pc = "writing"
    /\ snap' = [snap EXCEPT !.pc = "failed"]
    /\ UNCHANGED <<pullVars, loadVars, cleanVars, enrichVars>>
    /\ UNCHANGED <<upd, cyc, crawl, page, adp>>

\* everything written: os.replace(tmp, out), or write_text closes the file
WriteDone ==
    /\ snap.pc = "writing"
    /\ IF UsesTemp(snap.writer)
       THEN /\ snap.tmp.data = snap.new
            /\ snap' = [snap EXCEPT !.file = snap.tmp, !.tmp = NoFile, !.pc = "written"]
       ELSE /\ snap.file.data = snap.new
            /\ snap' = [snap EXCEPT !.pc = "written"]
    /\ UNCHANGED <<pullVars, loadVars, cleanVars, enrichVars>>
    /\ UNCHANGED <<upd, cyc, crawl, page, adp>>

\* another process reads the snapshot path
ReadSnapshot ==
    /\ snap.pc # "off"
    /\ snap.reads < 1
    /\ snap' = [snap EXCEPT !.seen = snap.file, !.reads = @ + 1]
    /\ UNCHANGED <<pullVars, loadVars, cleanVars, enrichVars>>
    /\ UNCHANGED <<upd, cyc, crawl, page, adp>>

NextWrite ==
    \/ OpenForWrite
    \/ WriteChunk
    \/ WriteFails
    \/ WriteDone
    \/ ReadSnapshot

WriteInit ==
    /\ InitSnap /\ ParkedPull /\ InitLoad /\ ParkedClean /\ ParkedEnrich
    /\ upd = Off /\ cyc = Off /\ crawl = Off /\ page = Off /\ adp = Off

SpecWrite == WriteInit /\ [][NextWrite]_vars

(***************************************************************************)
(* scrape.py: Scraper.scrape, the page loop                                *)
(***************************************************************************)
MaxPage == 3   \* pages the site serves; later page numbers fail

\* what one page of the site answers: a failed GET, an empty body, HTML
\* without result rows, or HTML with one or two result rows
PageKinds == {"error", "blank", "norows", "one", "two"}

\* Scraper._fetch_page: the HTML text, or "" on a soft failure
FetchPageHtml(kind) == IF kind \in {"error", "blank"} THEN "" ELSE "html"

\* Scraper._parse_page: the rows of page p
ParsePage(p, kind) ==
    IF kind = "one" THEN <<[page |-> p, row |-> 1]>>
    ELSE IF kind = "two" THEN <<[page |-> p, row |-> 1], [page |-> p, row |-> 2]>>
    ELSE <<>>

\* a loop that goes on past a page without rows
BreaksOnEmptyHtmlOnly(html, rows) == html = ""

\* `if not html: break` and `if not rows: break`
Breaks(html, rows) == html = "" \/ rows = <<>>

\* what the site answers for page number p
Served(p) == IF p \in DOMAIN crawl.site THEN crawl.site[p] ELSE "error"

InitCrawl ==
    \E site \in [1..MaxPage -> PageKinds], s \in 1..2, m \in 0..MaxPage :
        crawl = [pc |-> "loop", site |-> site, start_page |-> s, max_pages |-> m,
                 page_num |-> s, requested |-> <<>>, results |-> <<>>,
                 save |-> "none", ret |-> <<>>]

\* one pass of the loop body: fetch page_num, parse it, break or extend
CrawlPage ==
    /\ crawl.pc = "loop"
    /\ crawl.page_num < crawl.start_page + crawl.max_pages
    /\ LET Body(html, rows) ==
               IF Breaks(html, rows)
               THEN [crawl EXCEPT !.requested = Append(@, crawl.page_num),
                                  !.pc = "save"]
               ELSE [crawl EXCEPT !.requested = Append(@, crawl.page_num),
                                  !.results = @ \o rows,
                                  !.page_num = @ + 1]
       IN  crawl' = Body(FetchPageHtml(Served(crawl.page_num)),
                         ParsePage(crawl.page_num, Served(crawl.page_num)))
    /\ UNCHANGED <<pullVars, loadVars, cleanVars, enrichVars>>
    /\ UNCHANGED <<upd, cyc, snap, page, adp>>

\* range(start_page, start_page + max_pages) is used up
CrawlRangeEnds ==
    /\ crawl.pc = "loop"
    /\ crawl.page_num >= crawl.start_page + crawl.max_pages
    /\ crawl' = [crawl EXCEPT !.pc = "save"]
    /\ UNCHANGED <<pullVars, loadVars, cleanVars, enrichVars>>
    /\ UNCHANGED <<upd, cyc, snap, page, adp>>

\* _save_json succeeds, raises FileNotFoundError (caught) or another OSError
CrawlSave ==
    /\ crawl.pc = "save"
    /\ \E o \in {"saved", "FileNotFoundError", "OSError"} :
          crawl' = IF o = "OSError"
                   THEN [crawl EXCEPT !.save = o, !.pc = "raised"]
                   ELSE [crawl EXCEPT !.save = o, !.pc = "returned", !.ret = crawl.results]
    /\ UNCHANGED <<pullVars, loadVars, cleanVars, enrichVars>>
    /\ UNCHANGED <<upd, cyc, snap, page, adp>>

NextCrawl ==
    \/ CrawlPage
    \/ CrawlRangeEnds
    \/ CrawlSave

CrawlInit ==
    /\ InitCrawl /\ ParkedPull /\ InitLoad /\ ParkedClean /\ ParkedEnrich
    /\ upd = Off /\ cyc = Off /\ snap = Off /\ page = Off /\ adp = Off

SpecCrawl == CrawlInit /\ [][NextCrawl]_vars

(***************************************************************************)
(* scrape.py: Scraper._parse_page, the decision and the url of each row    *)
(***************************************************************************)
MaxTrs == 3   \* <tr> elements of the page

S_PageUrl == <<"x","?","p","=","1">>

\* a <tr>: its number of cells, the text of its first cell, what STATUS_RE
\* finds in its text (groups 1 and 2) and the href of its entry link
Tr(cells, univ, found, g1, g2, href) ==
    [cells |-> cells, university |-> univ,
     m |-> [found |-> found, g1 |-> g1, g2 |-> g2], href |-> href]

TrPool ==
    { Tr(5, <<"M","I","T">>, TRUE, <<"A","c","c","e","p","t","e","d">>, <<"5"," ","M","a","r">>, Null),
      Tr(5, <<"J","H","U">>, TRUE, <<"r","e","j","e","c","t","e","d">>, <<" ">>, Null),
      Tr(4, <<"C","M","U">>, TRUE, <<"W","a","i","t"," ","l","i","s","t","e","d">>, <<"1"," ","J","a","n">>, Null),
      Tr(4, <<"U","C","B">>, FALSE, Null, Null, Null),
      Tr(5, <<"M","I","T">>, TRUE, <<"I","N","T","E","R","V","I","E","W">>, Null, S_Url1),
      Tr(3, <<"a","d">>, TRUE, <<"A","c","c","e","p","t","e","d">>, Null, Null) }

\* the decision that keeps the captured date whatever the status
DecisionDateAlways(m) ==
    LET tok  == RemoveChar(Lower(m.g1), " ")
        when == IF m.g2 = Null \/ Strip(m.g2) = <<>> THEN Null ELSE Strip(m.g2)
    IN  IF ~m.found THEN [status |-> Null, accept_date |-> Null, reject_date |-> Null]
        ELSE IF Contains(tok, <<"w","a","i","t">>)
             THEN [status |-> S_Waitlisted, accept_date |-> when, reject_date |-> Null]
        ELSE IF tok = Lower(S_Accepted)
             THEN [status |-> S_Accepted, accept_date |-> when, reject_date |-> Null]
        ELSE IF tok = Lower(S_Rejected)
             THEN [status |-> S_Rejected, accept_date |-> Null, reject_date |-> when]
        ELSE IF tok = Lower(S_Interview)
             THEN [status |-> S_Interview, accept_date |-> when, reject_date |-> Null]
        ELSE [status |-> Null, accept_date |-> when, reject_date |-> Null]

\* status, accept_date and reject_date from the match of STATUS_RE
Decision(m) ==
    LET tok  == RemoveChar(Lower(m.g1), " ")
        when == IF m.g2 = Null \/ Strip(m.g2) = <<>> THEN Null ELSE Strip(m.g2)
    IN  IF ~m.found THEN [status |-> Null, accept_date |-> Null, reject_date |-> Null]
        ELSE IF Contains(tok, <<"w","a","i","t">>)
             THEN [status |-> S_Waitlisted, accept_date |-> Null, reject_date |-> Null]
        ELSE IF tok = Lower(S_Accepted)
             THEN [status |-> S_Accepted, accept_date |-> when, reject_date |-> Null]
        ELSE IF tok = Lower(S_Rejected)
             THEN [status |-> S_Rejected, accept_date |-> Null, reject_date |-> when]
        ELSE IF tok = Lower(S_Interview)
             THEN [status |-> S_Interview, accept_date |-> Null, reject_date |-> Null]
        ELSE [status |-> Null, accept_date |-> Null, reject_date |-> Null]

\* a row that is left without url when it has no entry link
RowUrlLinkOnly(tr, page_url) == tr.href

\* the entry link of the row, else the URL of the page
RowUrl(tr, page_url) == IF tr.href # Null THEN tr.href ELSE page_url

\* the record built for one <tr>
ExtractRow(tr, page_url) ==
    [accept_date |-> Decision(tr.m).accept_date,
     reject_date |-> Decision(tr.m).reject_date]
    @@ [RawBase EXCEPT !.university = tr.university,
                       !.url = RowUrl(tr, page_url),
                       !.status = Decision(tr.m).status]

\* the loop over the <tr> elements: rows with fewer than four cells are skipped
RECURSIVE ParseRows(_, _)
ParseRows(trs, page_url) ==
    IF trs = <<>> THEN <<>>
    ELSE IF Head(trs).cells < 4 THEN ParseRows(Tail(trs), page_url)
    ELSE <<ExtractRow(Head(trs), page_url)>> \o ParseRows(Tail(trs), page_url)

InitPage ==
    \E trs \in SeqsUpTo(TrPool, MaxTrs) :
        page = [pc |-> "parse", page_url |-> S_PageUrl, trs |-> trs,
                rows |-> <<>>, cleaned |-> <<>>]

\* _parse_page(html, page_url) returns rows_out
ParsePageRows ==
    /\ page.pc = "parse"
    /\ page' = [page EXCEPT !.rows = ParseRows(page.trs, page.page_url), !.pc = "parsed"]
    /\ UNCHANGED <<pullVars, loadVars, cleanVars, enrichVars>>
    /\ UNCHANGED <<upd, cyc, crawl, snap, adp>>

\* the rows of the page are cleaned by the Cleaner of app.py
CleanPageRows ==
    /\ page.pc = "parsed"
    /\ page' = [page EXCEPT !.cleaned = CleanRows(DefaultCfg, page.rows).rows,
                            !.pc = "cleaned"]
    /\ UNCHANGED <<pullVars, loadVars, cleanVars, enrichVars>>
    /\ UNCHANGED <<upd, cyc, crawl, snap, adp>>

NextPage ==
    \/ ParsePageRows
    \/ CleanPageRows

PageInit ==
    /\ InitPage /\ ParkedPull /\ InitLoad /\ ParkedClean /\ ParkedEnrich
    /\ upd = Off /\ cyc = Off /\ crawl = Off /\ snap = Off /\ adp = Off

SpecPage == PageInit /\ [][NextPage]_vars

\* ---------------------------------------------------------------------------
\* The bulk/CLI adapter of modules 4 and 5 (application/scrapper_cli_caller.py)
\* ---------------------------------------------------------------------------

MaxBulk == 2
MaxOut == 2

AdapterVariants == {"m4", "m5"}

\* items of a JSON array: two objects and one value that is not an object
JObj(i) == [t |-> "dict", id |-> i]
JScalar == [t |-> "scalar"]
JItems == {JObj(1), JObj(2), JScalar}
JList(items) == [t |-> "list", items |-> items]
JRecords(v) == [t |-> "dict", records |-> v]

\* what the bulk path holds: nothing, a directory, bytes that are not UTF-8,
\* text that is not JSON, text nested deeper than the parser's recursion
\* limit ('[' repeated), or the text of a JSON value
BulkFiles ==
    {[kind |-> k] : k \in {"missing", "directory", "undecodable", "malformed", "deep"}}
    \cup {[kind |-> "json", value |-> JList(s)] : s \in SeqsUpTo(JItems, MaxBulk)}
    \cup {[kind |-> "json", value |-> JRecords(JList(s))] : s \in SeqsUpTo(JItems, 1)}
    \cup {[kind |-> "json", value |-> JRecords(JScalar)],
          [kind |-> "json", value |-> JObj(1)],
          [kind |-> "json", value |-> JScalar]}

\* json.loads(text): the value, or the exception it raises
JsonLoads(f) ==
    CASE f.kind = "json"      -> [exc |-> "none", value |-> f.value]
      [] f.kind = "malformed" -> [exc |-> "JSONDecodeError"]
      [] f.kind = "deep"      -> [exc |-> "RecursionError"]

\* p.read_text(encoding="utf-8")
ReadText(f) ==
    CASE f.kind = "directory"   -> "IsADirectoryError"
      [] f.kind = "undecodable" -> "UnicodeDecodeError"
      [] OTHER                  -> "none"

DictsOf(items) == SelectSeq(items, LAMBDA x : x.t = "dict")

HasRecords(v) == v.t = "dict" /\ "records" \in DOMAIN v

\* the list the parsed value yields
BulkList(ver, v) ==
    LET data == IF HasRecords(v) THEN v.records ELSE v
    IN  IF data.t # "list" THEN <<>>
        ELSE IF ver = "m5" THEN DictsOf(data.items) ELSE data.items

\* _read_bulk_json(path)
ReadBulkJson(ver, f) ==
    IF f.kind = "missing" THEN [exc |-> "none", rows |-> <<>>]
    ELSE IF ver = "m5" /\ f.kind = "directory" THEN [exc |-> "none", rows |-> <<>>]
    ELSE IF ReadText(f) # "none" THEN [exc |-> "none", rows |-> <<>>]
    ELSE LET parsed == JsonLoads(f)
         IN  IF parsed.exc = "none"
                 THEN [exc |-> "none", rows |-> BulkList(ver, parsed.value)]
             ELSE IF ver = "m4" \/ parsed.exc = "JSONDecodeError"
                 THEN [exc |-> "none", rows |-> <<>>]
             ELSE [exc |-> parsed.exc, rows |-> <<>>]

\* lines of out.jsonl: an object, an array, text that is not JSON, a blank
OutLines == {[k |-> "dict", obj |-> JObj(1)],
             [k |-> "list", items |-> <<JObj(2), JScalar>>],
             [k |-> "malformed"], [k |-> "blank"]}

NoOut == [exists |-> FALSE]

OutFiles == {NoOut} \cup {[exists |-> TRUE, lines |-> s] : s \in SeqsUpTo(OutLines, MaxOut)}

\* _jsonl_to_list(p)
RECURSIVE JsonlRows(_)
JsonlRows(lines) ==
    IF lines = <<>> THEN <<>>
    ELSE LET l == Head(lines)
             got == CASE l.k = "dict" -> <<l.obj>>
                      [] l.k = "list" -> DictsOf(l.items)
                      [] OTHER        -> <<>>
         IN  got \o JsonlRows(Tail(lines))

JsonlToList(out) == IF out.exists THEN JsonlRows(out.lines) ELSE <<>>

\* subprocess.run(cmd, check=False, ...): the process cannot be started, it
\* outlives the timeout (module 5 sets one), or it exits with a status
CliOutcomes(ver) ==
    {"OSError", "exit0", "exit1"} \cup (IF ver = "m5" THEN {"TimeoutExpired"} ELSE {})

\* _make_result(source=, rows=)
MakeResult(source, rows) ==
    [source |-> source, final_records |-> rows, final_count |-> Len(rows)]

NoAdapterResult == [source |-> "none", final_records |-> <<>>, final_count |-> 0]

InitAdapter ==
    \E v \in AdapterVariants, f \in BulkFiles :
        adp = [pc |-> "read", variant |-> v, bulk |-> f, cli |-> "none",
               out |-> NoOut, raised |-> "none", result |-> NoAdapterResult]

\* rows = _read_bulk_json(...); if rows: return _make_result("bulk-json", rows)
ReadBulk ==
    /\ adp.pc = "read"
    /\ LET got == ReadBulkJson(adp.variant, adp.bulk)
       IN  adp' = IF got.exc # "none"
                      THEN [adp EXCEPT !.pc = "done", !.raised = got.exc]
                  ELSE IF got.rows # <<>>
                      THEN [adp EXCEPT !.pc = "done",
                                       !.result = MakeResult("bulk-json", got.rows)]
                  ELSE [adp EXCEPT !.pc = "cli"]
    /\ UNCHANGED <<pullVars, loadVars, cleanVars, enrichVars>>
    /\ UNCHANGED <<upd, cyc, crawl, snap, page>>

\* out_dir = mkdtemp(); subprocess.run(cmd, ...): the run ends in one of its
\* outcomes, and a process that ran may have left out.jsonl in out_dir
RunCli ==
    /\ adp.pc = "cli"
    /\ \E o \in CliOutcomes(adp.variant), f \in OutFiles :
        /\ o \in {"OSError", "TimeoutExpired"} => f = NoOut
        /\ adp' = IF o \in {"OSError", "TimeoutExpired"}
                      THEN [adp EXCEPT !.pc = "done", !.cli = o,
                                       !.result = MakeResult("cli-missing", <<>>)]
                  ELSE [adp EXCEPT !.pc = "ran", !.cli = o, !.out = f]
    /\ UNCHANGED <<pullVars, loadVars, cleanVars, enrichVars>>
    /\ UNCHANGED <<upd, cyc, crawl, snap, page>>

\* rows = _jsonl_to_list(out_jsonl); return _make_result("cli", rows)
ParseOut ==
    /\ adp.pc = "ran"
    /\ adp' = [adp EXCEPT !.pc = "done",
                          !.result = MakeResult("cli", JsonlToList(adp.out))]
    /\ UNCHANGED <<pullVars, loadVars, cleanVars, enrichVars>>
    /\ UNCHANGED <<upd, cyc, crawl, snap, page>>

NextAdapter ==
    \/ ReadBulk
    \/ RunCli
    \/ ParseOut

AdapterInit ==
    /\ InitAdapter /\ ParkedPull /\ InitLoad /\ ParkedClean /\ ParkedEnrich
    /\ upd = Off /\ cyc = Off /\ crawl = Off /\ snap = Off /\ page = Off

SpecAdapter == AdapterInit /\ [][NextAdapter]_vars

\* ---------------------------------------------------------------------------
\* One pull cycle: services.pull_data -> run_module2_cli -> module_2/app.py
\* main (scrape, clean), the host CLI (enrich), then load_applicants
\* ---------------------------------------------------------------------------

MaxCycPages == 2

\* a scraped row: whether the Cleaner keeps it, and whether the enrichment
\* has put its canonical fields on it
CycRow(i, ok) == [id |-> i, ok |-> ok, canon |-> FALSE]
CycRows == {CycRow(i, ok) : i \in 1..2, ok \in BOOLEAN}
StaleRows == <<[id |-> 0, ok |-> TRUE, canon |-> FALSE]>>

\* the merge of run_module2_cli: row i takes the canonical fields of line i
CycMerged(cleaned, n) ==
    [i \in 1..Len(cleaned) |->
        IF i <= n THEN [cleaned[i] EXCEPT !.canon = TRUE] ELSE cleaned[i]]

\* pull_data hands the Loader the cleaned rows instead of the final ones
LoaderArgumentCleaned(c) == c.cleaned

\* stats = load_applicants(run.final_records)
LoaderArgument(c) == c.final

InitCycle ==
    \E v \in {"m3", "m4"}, llm \in BOOLEAN, stale \in BOOLEAN,
       pages \in SeqsUpTo(CycRows, MaxCycPages) :
        cyc = [pc |-> "start", variant |-> v, use_llm |-> llm, pages |-> pages,
               rawFile |-> IF stale THEN File(StaleRows) ELSE Absent,
               cleanedFile |-> IF stale THEN File(StaleRows) ELSE Absent,
               extFile |-> IF stale THEN File(StaleRows) ELSE Absent,
               results |-> <<>>, save |-> "none",
               cleanIn |-> <<>>, todo |-> <<>>, cleaned |-> <<>>,
               enrichIn |-> <<>>, etodo |-> <<>>, lines |-> 0,
               final |-> <<>>, ret |-> FALSE,
               loads |-> 0, loadArg |-> <<>>,
               started |-> {}, finished |-> {}]

\* module 3, force=True: the three artifacts of the last cycle are unlinked
CycUnlink ==
    /\ cyc.pc = "start" /\ cyc.variant = "m3"
    /\ cyc' = [cyc EXCEPT !.rawFile = Absent, !.cleanedFile = Absent,
                          !.extFile = Absent, !.pc = "fetch",
                          !.started = @ \cup {"fetch"}]
    /\ UNCHANGED <<pullVars, loadVars, cleanVars, enrichVars>>
    /\ UNCHANGED <<upd, crawl, snap, page, adp>>

\* modules 4 and 5: the run is the bulk/CLI adapter, which has no stages
CycAdapterRun ==
    /\ cyc.pc = "start" /\ cyc.variant = "m4"
    /\ cyc' = [cyc EXCEPT !.final = cyc.pages, !.pc = "return"]
    /\ UNCHANGED <<pullVars, loadVars, cleanVars, enrichVars>>
    /\ UNCHANGED <<upd, crawl, snap, page, adp>>

\* scrape: one pass of the page loop extends results
CycFetchPage ==
    /\ cyc.pc = "fetch" /\ cyc.pages # <<>>
    /\ cyc' = [cyc EXCEPT !.results = Append(@, Head(cyc.pages)),
                          !.pages = Tail(@)]
    /\ UNCHANGED <<pullVars, loadVars, cleanVars, enrichVars>>
    /\ UNCHANGED <<upd, crawl, snap, page, adp>>

\* scrape: after the loop the rows are saved; FileNotFoundError is caught and
\* the rows are only returned, any other error ends app.py
CycFetchSave ==
    /\ cyc.pc = "fetch" /\ cyc.pages = <<>>
    /\ \E o \in {"saved", "FileNotFoundError", "OSError"} :
        cyc' = CASE o = "saved" ->
                      [cyc EXCEPT !.save = o, !.rawFile = File(cyc.results),
                                  !.finished = @ \cup {"fetch"}, !.pc = "clean"]
                 [] o = "FileNotFoundError" ->
                      [cyc EXCEPT !.save = o,
                                  !.finished = @ \cup {"fetch"}, !.pc = "clean"]
                 [] OTHER -> [cyc EXCEPT !.save = o, !.pc = "raised"]
    /\ UNCHANGED <<pullVars, loadVars, cleanVars, enrichVars>>
    /\ UNCHANGED <<upd, crawl, snap, page, adp>>

\* clean_file: rows = self._load_json(in_path)
CycCleanStart ==
    /\ cyc.pc = "clean"
    /\ cyc' = [cyc EXCEPT !.cleanIn = LoadJson(cyc.rawFile),
                          !.todo = LoadJson(cyc.rawFile),
                          !.started = @ \cup {"clean"}, !.pc = "cleaning"]
    /\ UNCHANGED <<pullVars, loadVars, cleanVars, enrichVars>>
    /\ UNCHANGED <<upd, crawl, snap, page, adp>>

\* clean_rows: one row is kept or dropped, or its validation raises
CycCleanRow ==
    /\ cyc.pc = "cleaning" /\ cyc.todo # <<>>
    /\ \E raises \in BOOLEAN :
        cyc' = IF raises THEN [cyc EXCEPT !.pc = "raised"]
               ELSE [cyc EXCEPT !.todo = Tail(@),
                                !.cleaned = IF Head(cyc.todo).ok
                                            THEN Append(@, Head(cyc.todo)) ELSE @]
    /\ UNCHANGED <<pullVars, loadVars, cleanVars, enrichVars>>
    /\ UNCHANGED <<upd, crawl, snap, page, adp>>

\* clean_file: self._save_json(cleaned, out_path); main() has no LLM stage
\* of its own in a pull cycle (argv[3] is "false") and app.py exits
CycCleanSave ==
    /\ cyc.pc = "cleaning" /\ cyc.todo = <<>>
    /\ cyc' = [cyc EXCEPT !.cleanedFile = File(cyc.cleaned),
                          !.finished = @ \cup {"clean"}, !.pc = "ran"]
    /\ UNCHANGED <<pullVars, loadVars, cleanVars, enrichVars>>
    /\ UNCHANGED <<upd, crawl, snap, page, adp>>

\* run_module2_cli after _run returned: cleaned = _load_json(CLEANED_PATH);
\* final = cleaned; with use_llm in.json is written and the host CLI started
CycAfterRun ==
    /\ cyc.pc = "ran"
    /\ cyc' = IF cyc.use_llm
              THEN [cyc EXCEPT !.final = LoadJson(cyc.cleanedFile),
                               !.enrichIn = LoadJson(cyc.cleanedFile),
                               !.etodo = LoadJson(cyc.cleanedFile),
                               !.started = @ \cup {"enrich"}, !.pc = "enriching"]
              ELSE [cyc EXCEPT !.final = LoadJson(cyc.cleanedFile),
                               !.pc = "return"]
    /\ UNCHANGED <<pullVars, loadVars, cleanVars, enrichVars>>
    /\ UNCHANGED <<upd, crawl, snap, page, adp>>

\* the host CLI writes one line of out.jsonl, or exits with an error
CycEnrichRow ==
    /\ cyc.pc = "enriching" /\ cyc.etodo # <<>>
    /\ \E fails \in BOOLEAN :
        cyc' = IF fails THEN [cyc EXCEPT !.pc = "raised"]
               ELSE [cyc EXCEPT !.etodo = Tail(@), !.lines = @ + 1]
    /\ UNCHANGED <<pullVars, loadVars, cleanVars, enrichVars>>
    /\ UNCHANGED <<upd, crawl, snap, page, adp>>

\* out.jsonl is read and merged; final = merged; EXTENDED_PATH is written
CycEnrichEnd ==
    /\ cyc.pc = "enriching" /\ cyc.etodo = <<>>
    /\ LET merged == CycMerged(cyc.enrichIn, cyc.lines)
       IN  cyc' = [cyc EXCEPT !.final = merged, !.extFile = File(merged),
                              !.finished = @ \cup {"enrich"}, !.pc = "return"]
    /\ UNCHANGED <<pullVars, loadVars, cleanVars, enrichVars>>
    /\ UNCHANGED <<upd, crawl, snap, page, adp>>

\* run = run_module2_cli(...) has returned to pull_data
CycReturn ==
    /\ cyc.pc = "return"
    /\ cyc' = [cyc EXCEPT !.ret = TRUE, !.pc = "load"]
    /\ UNCHANGED <<pullVars, loadVars, cleanVars, enrichVars>>
    /\ UNCHANGED <<upd, crawl, snap, page, adp>>

\* stats = load_applicants(run.final_records): returns stats or raises
CycLoad ==
    /\ cyc.pc = "load"
    /\ \E raises \in BOOLEAN :
        cyc' = [cyc EXCEPT !.loads = @ + 1, !.loadArg = LoaderArgument(cyc),
                           !.started = @ \cup {"load"},
                           !.finished = IF raises THEN @ ELSE @ \cup {"load"},
                           !.pc = IF raises THEN "raised" ELSE "done"]
    /\ UNCHANGED <<pullVars, loadVars, cleanVars, enrichVars>>
    /\ UNCHANGED <<upd, crawl, snap, page, adp>>

NextCycle ==
    \/ CycUnlink
    \/ CycAdapterRun
    \/ CycFetchPage
    \/ CycFetchSave
    \/ CycCleanStart
    \/ CycCleanRow
    \/ CycCleanSave
    \/ CycAfterRun
    \/ CycEnrichRow
    \/ CycEnrichEnd
    \/ CycReturn
    \/ CycLoad

CycleInit ==
    /\ InitCycle /\ ParkedPull /\ InitLoad /\ ParkedClean /\ ParkedEnrich
    /\ upd = Off /\ crawl = Off /\ snap = Off /\ page = Off /\ adp = Off

SpecCycle == CycleInit /\ [][NextCycle]_vars

ParkedPipe ==
    /\ upd = Off /\ cyc = Off /\ crawl = Off
    /\ snap = Off /\ page = Off /\ adp = Off

PullInit == InitPull /\ InitLoad /\ ParkedClean /\ ParkedEnrich /\ ParkedPipe

LoadInit == InitLoad /\ ParkedPull /\ ParkedClean /\ ParkedEnrich /\ ParkedPipe

CleanInit == InitClean /\ ParkedPull /\ InitLoad /\ ParkedEnrich /\ ParkedPipe

FieldsInit == InitFields /\ ParkedPull /\ InitLoad /\ ParkedEnrich /\ ParkedPipe

EnrichInit == InitEnrich /\ ParkedPull /\ InitLoad /\ ParkedClean /\ ParkedPipe

SpecPull == PullInit /\ [][NextPull]_vars

\* the thread inside `with _pull_lock` keeps running, and svc_pull() ends
PullProgress == \A r \in Reqs : WF_vars(SvcStart(r) \/ SvcEnd(r) \/ Finish(r))

SpecPullLive == PullInit /\ [][NextPull]_vars /\ PullProgress

SpecLoad == LoadInit /\ [][NextLoad]_vars

SpecClean == CleanInit /\ [][NextClean]_vars

SpecFields == FieldsInit /\ [][NextClean]_vars

SpecEnrich == EnrichInit /\ [][NextEnrich]_vars

(***************************************************************************)
(* Derived state                                                           *)
(***************************************************************************)
\* a request sits at `with _pull_lock:` while another request holds the lock
Blocked(r) == pc[r] = "acquire" /\ lock \notin {0, r}

InSvc(r) == pc[r] = "svc"

Failure(rsp) == rsp.kind \in {"error", "unhandled"}

\* rows of table st whose natural key is carried by some row of b
RowsFor(st, b) == SelectSeq(st, LAMBDA row : \E i \in 1..Len(b) : b[i].url = row.url)

\* row i of batch b is new: its key is neither in table `start` nor earlier in b
NewInBatch(start, b, i) ==
    /\ ~HasUrl(start, b[i].url)
    /\ \A j \in 1..(i - 1) : b[j].url # b[i].url

\* the new rows among the first k rows of b, in batch order
RECURSIVE NewRows(_, _, _)
NewRows(start, b, k) ==
    IF k = 0 THEN <<>>
    ELSE IF NewInBatch(start, b, k)
         THEN Append(NewRows(start, b, k - 1), b[k])
         ELSE NewRows(start, b, k - 1)

\* the items clean_file() read
RawItems == LoadJson(rawFile)

\* clean_file() has returned its rows
Cleaned == cpc \in {"cleaned", "next_stage"}

\* the five required fields of a row are non-null, non-empty strings
Complete(row) == \A f \in REQUIRED_FIELDS : row[f] # Null /\ row[f] # <<>>

\* the normalized form of every raw item
NormOf(items) == [k \in 1..Len(items) |-> NormalizeRow(cleaner, items[k])]

\* the raw items that are rows with all required fields after normalization
KeptOf(items) ==
    {k \in 1..Len(items) : items[k].isdict /\ Complete(NormalizeRow(cleaner, items[k]))}

\* validation is switched on and has a dataclass to build
Strict == cleaner.validate_with_dataclass /\ cleaner.entry_cls # "None"

\* the enrichment backend failed, timed out, exited with an error or was
\* unavailable for the run
BackendFailed ==
    \/ backend.run # "ok"
    \/ ~backend.out_exists
    \/ epath = "app" /\ ~backend.host_up

\* the enrichment stage has produced its rows
Enriched == epc \in {"extended", "complete"}

\* the stage ran as Cleaner.extend_with_llm of clean.py
ByCleaner == epath \in {"app", "api"}

\* the labels the LLMClient handed to extend_with_llm
LabelsGiven == CanonizeBatch(backend, Len(einput))

\* how many labels the backend's output carried
Received ==
    IF backend.run = "raises" \/ ~backend.out_exists THEN 0
    ELSE Len(SelectSeq(backend.lines, LAMBDA l : l.json))

\* the merged form of row i failed validation
FailedValidation(i) ==
    /\ ExtValidationOn(ecfg)
    /\ ValidateExtendedRaises(ecfg, Merge(einput[i], LabelsGiven[i]))

(***************************************************************************)
(* Claims                                                                  *)
(***************************************************************************)

\* C1: a /pull-data request that arrives while another pull cycle is in
\* flight is answered busy (409 for JSON callers) without calling svc_pull,
\* and no request ever waits at the lock to run a queued second cycle.
C1_BusyNeverQueued ==
    \A r \in Reqs :
        /\ ~Blocked(r)
        /\ arrivedBusy[r] => svcCalls[r] = 0
        /\ (arrivedBusy[r] /\ pc[r] = "done") =>
              /\ resp[r].kind = "busy"
              /\ wants_json[r] => resp[r].status = 409

\* C2: at most one svc_pull() runs at any time, and the request running it
\* holds _pull_lock from before the call until after it has ended.
C2_OnePullAtATime ==
    /\ Cardinality({r \in Reqs : InSvc(r)}) <= 1
    /\ \A r \in Reqs : pc[r] \in {"locked", "svc", "svc_ended"} => lock = r

\* C2 witness: one request runs svc_pull() while another one has arrived.
C2_Witness ==
    \E r, q \in Reqs : r # q /\ InSvc(r) /\ pc[q] \in {"check", "acquire", "done"}
                         /\ arrivedBusy[q]

\* C3: the busy response is given only for a cycle in flight; when svc_pull()
\* itself raised (RuntimeError included) the request is answered with a
\* failure, never with busy.
C3_BusyOnlyWhenInFlight ==
    \A r \in Reqs :
        pc[r] = "done" =>
            /\ resp[r].kind = "busy" => svcCalls[r] = 0
            /\ svcOutcome[r] \in {"RuntimeError", "Exception"} => Failure(resp[r])

\* C4: the table never holds two rows with one URL, and over all load calls
\* each URL is counted as inserted at most once.
C4_OneRowPerUrl ==
    \A u \in Urls :
        /\ Cardinality({i \in 1..Len(store) : store[i].url = u}) <= 1
        /\ insertedBy[u] <= 1

\* C4 witness: two processes in load_applicants() at once have both attempted
\* a row with the same URL.
C4_Witness ==
    /\ lpc["app"] = "loading" /\ lpc["script"] = "loading"
    /\ \E i \in 1..Len(outcomes["app"]), j \in 1..Len(outcomes["script"]) :
          batch["app"][i].url = batch["script"][j].url

\* C5: a second load of the same rows reports inserted 0 and skipped
\* len(rows), and leaves the table as it found it.
C5_LoadIdempotent ==
    \A p \in Loaders :
        (lpc[p] = "returned" /\ repeat[p]) =>
            /\ stats[p].inserted = 0
            /\ stats[p].skipped = Len(batch[p])
            /\ RowsFor(store, batch[p]) = RowsFor(startStore[p], batch[p])
            /\ quiet[p] => store = startStore[p]

\* C5 witness: a repeated load of a batch of two different URLs has returned.
C5_Witness ==
    \E p \in Loaders :
        /\ lpc[p] = "returned" /\ repeat[p] /\ quiet[p]
        /\ Len(batch[p]) = 2 /\ batch[p][1].url # batch[p][2].url

\* C6: every load call that returns has attempted == len(rows) and
\* attempted == inserted + skipped.
C6_CountIdentity ==
    \A p \in Loaders :
        lpc[p] = "returned" =>
            /\ stats[p].attempted = Len(batch[p])
            /\ stats[p].attempted = stats[p].inserted + stats[p].skipped

\* C6 witness: a call returned having inserted one row and skipped another.
C6_Witness ==
    \E p \in Loaders :
        lpc[p] = "returned" /\ stats[p].inserted >= 1 /\ stats[p].skipped >= 1

\* C7: within a load call a row is inserted exactly when its URL is neither
\* in the table nor carried by an earlier row of the batch; any other row is
\* skipped and leaves the table unchanged.
C7_InsertedIffNew ==
    \A p \in Loaders :
        lpc[p] \in {"loading", "returned"} =>
            /\ \A i \in 1..Len(outcomes[p]) :
                  /\ outcomes[p][i] = "inserted" => NewInBatch(startStore[p], batch[p], i)
                  /\ quiet[p] =>
                        (outcomes[p][i] = "inserted" <=> NewInBatch(startStore[p], batch[p], i))
            /\ quiet[p] =>
                  store = startStore[p] \o NewRows(startStore[p], batch[p], Len(outcomes[p]))

\* C7 witness: a batch carrying the same new URL twice has returned with
\* inserted 1 and skipped 1.
C7_Witness ==
    \E p \in Loaders :
        /\ lpc[p] = "returned" /\ quiet[p]
        /\ Len(batch[p]) = 2
        /\ batch[p][1].url = batch[p][2].url /\ batch[p][1].val # batch[p][2].val
        /\ ~HasUrl(startStore[p], batch[p][1].url)
        /\ stats[p] = [attempted |-> 2, inserted |-> 1, skipped |-> 1]

\* C8: cleaning with URL dedupe on leaves at most one row per URL, and that
\* row is the normalized form of the first raw row, in input order, that
\* passed the required-field gate with that trimmed URL.
C8_FirstRowPerUrl ==
    (Cleaned /\ cleaner.dedupe_by_url) =>
        LET out  == returned.rows
            norm == NormOf(RawItems)
            kept == KeptOf(RawItems)
        IN  /\ \A i, j \in 1..Len(out) : out[i].url = out[j].url => i = j
            /\ \A k \in kept : \E i \in 1..Len(out) : out[i].url = norm[k].url
            /\ \A i \in 1..Len(out) :
                  \E k \in kept :
                      /\ out[i] = norm[k]
                      /\ \A j \in kept : j < k => norm[j].url # norm[k].url
            /\ cleanedFile = File(out)

\* C8 witness: two raw rows that both pass the gate spell one URL
\* differently and differ in another field, and the clean has returned.
C8_Witness ==
    /\ Cleaned /\ cleaner.dedupe_by_url
    /\ Len(RawItems) = 2 /\ KeptOf(RawItems) = {1, 2}
    /\ RawItems[1].url # RawItems[2].url
    /\ NormOf(RawItems)[1].url = NormOf(RawItems)[2].url
    /\ NormOf(RawItems)[1] # NormOf(RawItems)[2]
    /\ Len(returned.rows) = 1

\* C9: every row clean_rows returns has program, university, date_added, url
\* and status as non-null, non-empty strings; a raw row lacking one of them
\* after normalization is left out and the rows after it are still cleaned.
C9_RequiredFields ==
    Cleaned =>
        LET out  == returned.rows
            norm == NormOf(RawItems)
            kept == KeptOf(RawItems)
        IN  /\ \A i \in 1..Len(out) : Complete(out[i])
            /\ \A k \in (1..Len(RawItems)) \ kept : \A i \in 1..Len(out) : out[i] # norm[k]
            /\ \A k \in kept : \E i \in 1..Len(out) : out[i].url = norm[k].url
            /\ ~cleaner.dedupe_by_url => Len(out) = Cardinality(kept)

\* C9 witness: a raw row without a required field is followed by a complete
\* one, and the clean returned only the second.
C9_Witness ==
    /\ Cleaned
    /\ Len(RawItems) = 2 /\ RawItems[1].isdict /\ KeptOf(RawItems) = {2}
    /\ returned.rows = <<NormOf(RawItems)[2]>>

\* C10: with strict validation on, one row failing validation makes the
\* whole clean raise: nothing is returned, no cleaned snapshot is written and
\* main() never reaches the next stage; a row failing only the required-field
\* gate is dropped and the clean goes on.
C10_StrictAllOrNothing ==
    LET norm == NormOf(RawItems)
        bad  == {k \in KeptOf(RawItems) : ClsRaises(cleaner.entry_cls, norm[k])}
    IN  /\ cpc = "raised" => returned = NoResult /\ cleanedFile = cleanedWas
        /\ (cpc \in {"cleaned", "next_stage", "raised"} /\ Strict /\ bad # {}) => cpc = "raised"
        /\ (~Strict \/ bad = {}) => cpc # "raised"

\* C10 witness: a row dropped by the gate precedes a row that fails strict
\* validation; the clean raised and the older cleaned snapshot is untouched.
C10_Witness ==
    /\ cpc = "raised" /\ cleanedFile = OldCleaned
    /\ Len(RawItems) = 2 /\ RawItems[1].isdict /\ KeptOf(RawItems) = {2}
    /\ ClsRaises(cleaner.entry_cls, NormOf(RawItems)[2])

\* C11: when the enrichment backend fails, times out, exits with an error
\* or is unavailable, the stage raises nothing and returns every row of the
\* batch with both canon fields null, and the run completes and hands its
\* rows to the next stage.
C11_EnrichmentDegrades ==
    (BackendFailed /\ epc \notin {"parked", "start", "host_ready"}) =>
        /\ Enriched
        /\ Len(eout) = Len(einput)
        /\ \A i \in 1..Len(eout) :
              eout[i].program_canon = Null /\ eout[i].university_canon = Null
        /\ epc = "complete" => handed = [has |-> TRUE, rows |-> eout]

\* C12: a merged row that fails strict validation is rolled back alone: its
\* program and university are the pre-merge values and both canon fields
\* are null, it is still emitted, and every other row keeps its merge.
C12_RollbackOneRow ==
    (Enriched /\ ByCleaner) =>
        /\ Len(eout) = Len(einput)
        /\ \A i \in 1..Len(eout) :
              IF FailedValidation(i)
              THEN /\ eout[i].program = einput[i].program
                   /\ eout[i].university = einput[i].university
                   /\ eout[i].url = einput[i].url
                   /\ eout[i].program_canon = Null
                   /\ eout[i].university_canon = Null
              ELSE eout[i] = Merge(einput[i], LabelsGiven[i])

\* C12 witness: of two rows whose merge overrode program, the first failed
\* validation and was rolled back, the second kept its canonical program.
C12_Witness ==
    /\ Enriched /\ ByCleaner /\ Len(einput) = 2
    /\ FailedValidation(1) /\ ~FailedValidation(2)
    /\ Merge(einput[1], LabelsGiven[1]).program # einput[1].program
    /\ eout[1].program = einput[1].program
    /\ eout[2].program # einput[2].program /\ eout[2].program_canon # Null

\* C13: enriching n rows gives n rows in input order whatever number of
\* labels came back: rows past the received labels have null canon fields,
\* surplus labels are ignored, and a count mismatch raises nothing.
C13_CountMismatchTolerated ==
    ByCleaner =>
        /\ epc = "aborted" => ~backend.host_up
        /\ Enriched =>
              /\ Len(eout) = Len(einput)
              /\ \A i \in 1..Len(eout) :
                    /\ eout[i].url = einput[i].url
                    /\ i > Received =>
                          /\ eout[i].program_canon = Null
                          /\ eout[i].university_canon = Null
                          /\ eout[i].program = einput[i].program
                          /\ eout[i].university = einput[i].university

\* C13 witness: two rows were enriched with one label received; the first
\* row carries it, the second has null canon fields.
C13_Witness ==
    /\ Enriched /\ ByCleaner /\ Len(einput) = 2 /\ Received = 1
    /\ eout[1].program_canon = S_CS
    /\ eout[2].program_canon = Null /\ eout[2].university_canon = Null

\* C14: for a row that was not rolled back and each of program and
\* university: a returned canonical value that is a string, non-empty
\* after trimming, becomes the primary field and the canon field equals the
\* primary field; otherwise the primary field is unchanged and the canon
\* field is null.
C14_OverrideRule ==
    (Enriched /\ ByCleaner) =>
        \A i \in 1..Len(eout) :
            ~FailedValidation(i) =>
                /\ IF Accepted(LabelsGiven[i].program_canon)
                   THEN /\ eout[i].program = Strip(LabelsGiven[i].program_canon)
                        /\ eout[i].program_canon = eout[i].program
                   ELSE /\ eout[i].program = einput[i].program
                        /\ eout[i].program_canon = Null
                /\ IF Accepted(LabelsGiven[i].university_canon)
                   THEN /\ eout[i].university = Strip(LabelsGiven[i].university_canon)
                        /\ eout[i].university_canon = eout[i].university
                   ELSE /\ eout[i].university = einput[i].university
                        /\ eout[i].university_canon = Null

\* C15: every row an enrichment stage puts out carries the program_canon
\* and the university_canon key, null when no canonical value was accepted.
C15_CanonKeysPresent ==
    Enriched =>
        \A i \in 1..Len(eout) :
            eout[i].program_canon # Missing /\ eout[i].university_canon # Missing

\* C16: in every cleaned row status is one of the five canonical values,
\* degree is null or one of the eight degrees, start_term null or Fall,
\* Spring, Summer, citizenship null or International, American.
C16_EnumsClosed ==
    Cleaned =>
        \A i \in 1..Len(returned.rows) :
            LET row == returned.rows[i]
            IN  /\ row.status \in STATUS_ALLOWED
                /\ row.degree \in DEGREE_ALLOWED \cup {Null}
                /\ row.start_term \in TERM_ALLOWED \cup {Null}
                /\ row.citizenship \in CITIZENSHIP_ALLOWED \cup {Null}

\* C16 witness: a row whose raw status, degree, start_term and citizenship
\* are all outside the closed sets was cleaned; degree and start_term were
\* mapped, the unknown citizenship became null, the unknown status Pending.
C16_Witness ==
    /\ Cleaned /\ Len(RawItems) = 1 /\ Len(returned.rows) = 1
    /\ RawItems[1].degree = <<"P","h",".","D",".">>
    /\ RawItems[1].start_term = <<"A","u","t","u","m","n">>
    /\ RawItems[1].citizenship = <<"O","t","h","e","r">>
    /\ RawItems[1].status = <<"x","y","z">>
    /\ returned.rows[1].degree = D_PhD
    /\ returned.rows[1].start_term = T_Fall
    /\ returned.rows[1].citizenship = Null
    /\ returned.rows[1].status = S_Pending

\* C17: in every cleaned row gpa is null or within [0.0, gpa_max], gre_total
\* null or within [260, 340], gre_verbal null or within [130, 170], gre_aw
\* null or within [0.0, 6.0], start_year null or within [year_min, year_max].
C17_NumericBounds ==
    Cleaned =>
        \A i \in 1..Len(returned.rows) :
            LET row == returned.rows[i]
                Within(v, lo, hi) ==
                    /\ v.kind \in {"int", "float"}
                    /\ lo * v.den <= v.num /\ v.num <= hi * v.den
            IN  /\ row.gpa = NoneNum \/ Within(row.gpa, 0, cleaner.gpa_max)
                /\ row.gre_total = NoneNum \/ Within(row.gre_total, 260, 340)
                /\ row.gre_verbal = NoneNum \/ Within(row.gre_verbal, 130, 170)
                /\ row.gre_aw = NoneNum \/ Within(row.gre_aw, 0, 6)
                /\ row.start_year = NoneNum
                      \/ Within(row.start_year, cleaner.year_min, cleaner.year_max)

\* C18: every cleaned row's date_added is an ISO date string YYYY-MM-DD.
C18_DateAddedIso ==
    Cleaned => \A i \in 1..Len(returned.rows) : IsIsoDate(returned.rows[i].date_added)

\* C19: clean_rows keeps input order: the cleaned rows, in output order, are
\* the normalized forms of raw rows at strictly increasing input positions.
C19_OrderPreserved ==
    Cleaned =>
        LET out  == returned.rows
            norm == NormOf(RawItems)
        IN  \E f \in [1..Len(out) -> 1..Len(RawItems)] :
                /\ \A i \in 1..Len(out) : RawItems[f[i]].isdict /\ out[i] = norm[f[i]]
                /\ \A i, j \in 1..Len(out) : i < j => f[i] < f[j]

\* C19 witness: two different raw rows were both kept by a deduping clean
\* and came out in their input order.
C19_Witness ==
    /\ Cleaned /\ cleaner.dedupe_by_url /\ Len(RawItems) = 2
    /\ NormOf(RawItems)[1] # NormOf(RawItems)[2]
    /\ returned.rows = <<NormOf(RawItems)[1], NormOf(RawItems)[2]>>

C27_StatusCanonicalization ==
    (Cleaned /\ Len(RawItems) = 1) =>
        LET text == NormStr(RawItems[1].status)
            t    == RemoveChar(Lower(text), " ")
            Expected(tok) == Len(returned.rows) = 1 /\ returned.rows[1].status = tok
        IN  IF text = Null THEN returned.rows = <<>>
            ELSE IF Contains(t, <<"w","a","i","t">>) THEN Expected(S_Waitlisted)
            ELSE IF t = <<"a","c","c","e","p","t","e","d">> THEN Expected(S_Accepted)
            ELSE IF t = <<"r","e","j","e","c","t","e","d">> THEN Expected(S_Rejected)
            ELSE IF t = <<"i","n","t","e","r","v","i","e","w">> THEN Expected(S_Interview)
            ELSE Expected(S_Pending)

\* C27 witness: a row whose status is a single blank was cleaned and dropped,
\* although every other required field was present.
C27_Witness ==
    /\ Cleaned /\ Len(RawItems) = 1
    /\ RawItems[1].status = <<" ">>
    /\ \A k \in must_have \ {"status"} : NonEmptyStr(NormOf(RawItems)[1][k])
    /\ returned.rows = <<>>

\* C30: Cleaner.extend_with_llm changes nothing but program, university,
\* program_canon and university_canon: every other field of an output row
\* equals the field of the input row at the same position, and the input
\* rows handed to the call are the same after it.
C30_MergeFrame ==
    [][ExtendWithLlm =>
          /\ einput' = einput
          /\ \A i \in 1..Len(eout') :
                \A f \in DOMAIN einput[i] \ {"program", "university", "program_canon",
                                              "university_canon"} :
                    eout'[i][f] = einput[i][f]]_vars

\* C30 witness: the merge replaced the program of a row and left its url.
C30_Witness ==
    /\ Enriched /\ ByCleaner
    /\ \E i \in 1..Len(eout) :
          /\ eout[i].program # einput[i].program
          /\ eout[i].url = einput[i].url

\* C24: the pull lock is held only while its request is inside the pull
\* cycle and is free again once the cycle has ended, whether svc_pull()
\* returned or raised; with the lock free a request is let through its busy
\* check and into the cycle; so a busy lock always becomes free again.
C24_LockReleased ==
    /\ [](\A r \in Reqs : lock = r => pc[r] \in {"locked", "svc", "svc_ended"})
    /\ [][\A r \in Reqs : (lock = 0 /\ CheckLocked(r)) => pc'[r] = "acquire"]_vars
    /\ [](\A r \in Reqs : (lock = 0 /\ pc[r] = "acquire") => ENABLED Acquire(r))
    /\ \A r \in Reqs : (lock = r) ~> (lock = 0)

\* C24 witness: one request's cycle ended with svc_pull() raising, and a
\* request that arrived at a free lock is now running its own cycle.
C24_Witness ==
    \E r, q \in Reqs :
        /\ r # q
        /\ pc[r] = "done" /\ svcOutcome[r] \in {"RuntimeError", "Exception"}
        /\ lock = q /\ pc[q] = "svc" /\ ~arrivedBusy[q]

\* C25: analysis_to_files() never runs while a pull cycle is in flight, and an
\* /update-analysis request that arrives during a pull cycle is answered busy
\* (409 for JSON callers) without running the analysis.
C25_UpdateExcludedByPull ==
    /\ ~(upd.pc = "analysis" /\ PullInFlight)
    /\ (upd.pc = "done" /\ upd.arrivedBusy) =>
          /\ ~upd.ran
          /\ upd.resp.kind = "busy"
          /\ upd.json => upd.resp.status = 409

\* C23: whatever the writer of a snapshot path is doing, failing partway
\* included, the path holds, and a reader has seen, either the complete
\* previous content or the complete new content.
C23_AtomicSnapshot ==
    snap.pc # "off" =>
        /\ snap.file \in {snap.old, OnDisk(snap.new)}
        /\ snap.reads > 0 => snap.seen \in {snap.old, OnDisk(snap.new)}

\* the rows of the pages s, s+1, ..., s+n-1 of the site, in page order
RECURSIVE RowsOfPages(_, _)
RowsOfPages(s, n) ==
    IF n = 0 THEN <<>>
    ELSE RowsOfPages(s, n - 1) \o ParsePage(s + n - 1, Served(s + n - 1))

\* C22: the crawl loop requests the pages start_page, start_page + 1, ... one
\* at a time, at most max_pages of them; a page with empty content or without
\* rows is the last page requested; the stop raises nothing; and the rows
\* collected and returned are those of the pages before the stopping page, in
\* page order.
C22_CrawlStopsAtEmptyPage ==
    crawl.pc # "off" =>
        LET req      == crawl.requested
            Ends(p)  == Served(p) \in {"error", "blank", "norows"}
            full     == Cardinality({i \in 1..Len(req) : ~Ends(req[i])})
        IN  /\ \A i \in 1..Len(req) : req[i] = crawl.start_page + i - 1
            /\ Len(req) <= crawl.max_pages
            /\ \A i \in 1..Len(req) : Ends(req[i]) => i = Len(req)
            /\ crawl.results = RowsOfPages(crawl.start_page, full)
            /\ crawl.pc = "raised" => crawl.save = "OSError"
            /\ crawl.pc = "returned" => crawl.ret = crawl.results

\* C22 witness: the second page requested had no rows although the page after
\* it has some and max_pages allowed for it; the crawl returned the rows of
\* the first page alone.
C22_Witness ==
    /\ crawl.pc = "returned"
    /\ Len(crawl.requested) = 2 /\ crawl.max_pages >= 3
    /\ Served(crawl.requested[2]) = "norows"
    /\ Served(crawl.requested[2] + 1) \in {"one", "two"}
    /\ crawl.ret = ParsePage(crawl.start_page, Served(crawl.start_page))
    /\ crawl.ret # <<>>

\* C26: in every row built by _parse_page accept_date is set only with status
\* Accepted and reject_date only with status Rejected; never both; a
\* Waitlisted row has neither.
C26_BadgeDatesFollowStatus ==
    page.pc \in {"parsed", "cleaned"} =>
        \A i \in 1..Len(page.rows) :
            LET row == page.rows[i]
            IN  /\ row.accept_date # Null => row.status = S_Accepted
                /\ row.reject_date # Null => row.status = S_Rejected
                /\ row.accept_date = Null \/ row.reject_date = Null
                /\ row.status = S_Waitlisted =>
                      row.accept_date = Null /\ row.reject_date = Null

\* C26 witness: a <tr> reading "Wait listed on 1 Jan" became a Waitlisted row
\* without dates, next to an Accepted row that kept its date.
C26_Witness ==
    /\ page.pc = "parsed"
    /\ \E i, j \in 1..Len(page.rows) :
          /\ page.rows[i].status = S_Waitlisted
          /\ page.rows[i].accept_date = Null /\ page.rows[i].reject_date = Null
          /\ page.rows[j].status = S_Accepted
          /\ page.rows[j].accept_date = <<"5"," ","M","a","r">>
    /\ \E k \in 1..Len(page.trs) :
          page.trs[k].m.g2 = <<"1"," ","J","a","n">>

\* the positions in rows_out of the rows without entry link that pass the
\* required-field gate
LinklessKept ==
    {i \in 1..Len(page.rows) :
        /\ page.rows[i].url = page.page_url
        /\ PassesGate(NormalizeRow(DefaultCfg, page.rows[i]))}

\* C28: every row of a page without entry link takes the page URL as its url;
\* of those rows, cleaning with dedupe keeps the first one in input order that
\* passes the required-field gate and no other.
C28_LinklessRowsDeduped ==
    /\ page.pc \in {"parsed", "cleaned"} =>
          LET kept == SelectSeq(page.trs, LAMBDA t : t.cells >= 4)
          IN  /\ Len(page.rows) = Len(kept)
              /\ \A i \in 1..Len(kept) :
                    kept[i].href = Null => page.rows[i].url = page.page_url
    /\ page.pc = "cleaned" =>
          LET mine == SelectSeq(page.cleaned, LAMBDA r : r.url = page.page_url)
          IN  IF LinklessKept = {} THEN mine = <<>>
              ELSE LET first == CHOOSE i \in LinklessKept : \A j \in LinklessKept : i <= j
                   IN  mine = <<NormalizeRow(DefaultCfg, page.rows[first])>>

\* C28 witness: three rows without entry link; the first has no status and
\* is dropped at the gate, the second is kept, the third is discarded.
C28_Witness ==
    /\ page.pc = "cleaned" /\ Len(page.rows) = 3
    /\ \A i \in 1..3 : page.rows[i].url = page.page_url
    /\ LinklessKept = {2, 3}
    /\ page.rows[2].university # page.rows[3].university
    /\ Len(page.cleaned) = 1
    /\ page.cleaned[1].university = page.rows[2].university

\* C29: run_module2_cli never raises; a bulk file that holds a non-empty list
\* of objects is returned as the records; otherwise the external CLI is
\* tried, and with the bulk file missing or malformed and the CLI
\* unlaunchable, failed or silent, the result holds an empty record list.
C29_AdapterNeverRaises ==
    adp.pc = "done" =>
        /\ adp.raised = "none"
        /\ (/\ adp.bulk.kind = "json"
            /\ adp.bulk.value.t = "list"
            /\ adp.bulk.value.items # <<>>
            /\ DictsOf(adp.bulk.value.items) = adp.bulk.value.items)
           => /\ adp.result.source = "bulk-json"
              /\ adp.result.final_records = adp.bulk.value.items
        /\ adp.cli = "none" => adp.result.source = "bulk-json"
        /\ (/\ adp.bulk.kind \in {"missing", "malformed", "deep"}
            /\ \/ adp.cli \in {"OSError", "exit1"}
               \/ ~adp.out.exists)
           => adp.result.final_records = <<>>

\* C21: in a pull cycle the stages run in the order fetch, clean, enrich,
\* load; a stage starts only when the stage before it has finished, and it
\* works on that stage's whole output; the Loader is called once, after the
\* run has returned, with the run's final records.
C21_StagesInOrder ==
    cyc # Off =>
        /\ "clean" \in cyc.started =>
              /\ "fetch" \in cyc.finished
              /\ cyc.save = "saved" => cyc.cleanIn = cyc.results
        /\ "enrich" \in cyc.started =>
              /\ "clean" \in cyc.finished
              /\ cyc.enrichIn = cyc.cleaned
        /\ "load" \in cyc.started =>
              /\ cyc.ret
              /\ cyc.variant = "m3" => "clean" \in cyc.finished
              /\ (cyc.variant = "m3" /\ cyc.use_llm) => "enrich" \in cyc.finished
              /\ "enrich" \in cyc.started => "enrich" \in cyc.finished
              /\ cyc.loadArg = cyc.final
        /\ cyc.loads <= 1
        /\ cyc.loads = 1 <=> "load" \in cyc.started
        /\ cyc.pc = "done" => cyc.loads = 1
        /\ ~cyc.ret => cyc.loads = 0

\* a cycle with the enrichment on has loaded rows that passed all stages
C21_Witness ==
    /\ cyc # Off /\ cyc.pc = "done" /\ cyc.variant = "m3" /\ cyc.use_llm
    /\ cyc.save = "saved" /\ Len(cyc.results) = 2 /\ Len(cyc.cleaned) = 1
    /\ cyc.loads = 1 /\ cyc.loadArg = cyc.final
    /\ cyc.final # cyc.cleaned

====
